---- MODULE Spec2Model ----
(***************************************************************************)
(* A model of sprout's Manager (apps/sprout/internal/sprout/manager.go):   *)
(* the git worktree inventory, the tmux server and the Manager's public    *)
(* operations over them.  Strings are sequences of one-character strings,  *)
(* so that safeName, Slugify and the name caps are computed as in the code.*)
(***************************************************************************)
EXTENDS Integers, Sequences, FiniteSets, TLC

(* ------------------------------------------------------------------ *)
(* Strings                                                            *)
(* ------------------------------------------------------------------ *)

Letters == {"a", "b", "c", "d", "e", "f", "g", "h", "i", "j", "k", "l", "m",
            "n", "o", "p", "q", "r", "s", "t", "u", "v", "w", "x", "y", "z"}

Digits == <<"0", "1", "2", "3", "4", "5", "6", "7", "8", "9">>

DigitChars == {Digits[i] : i \in 1..10}

\* safeNameRe: [^A-Za-z0-9._-]+  (the class that is NOT replaced)
SafeChars == Letters \cup {"A", "C", "F", "R", "U", "X"} \cup DigitChars \cup {".", "_", "-"}

\* slugBadRe: [^a-z0-9/-]+  (the class that is NOT replaced)
SlugChars == Letters \cup DigitChars \cup {"/", "-"}

\* strings.ToLower, on the characters the model uses
LowerChar(c) ==
    IF c = "A" THEN "a" ELSE IF c = "F" THEN "f"
    ELSE IF c = "C" THEN "c" ELSE IF c = "U" THEN "u"
    ELSE IF c = "X" THEN "x" ELSE IF c = "R" THEN "r" ELSE c

ToLower(s) == [i \in 1..Len(s) |-> LowerChar(s[i])]

Take(s, n) == IF Len(s) > n THEN SubSeq(s, 1, n) ELSE s

\* regexp.ReplaceAllString(s, rep) for a pattern  [^keep]+ : every maximal run
\* of characters outside keep becomes one rep (written at the end of the run)
ReplaceRuns(s, keep, rep) ==
    LET put(at) == [k \in 1..Len(at) |-> IF s[at[k]] \in keep THEN s[at[k]] ELSE rep]
    IN  put(SelectSeq([i \in 1..Len(s) |-> i],
                      LAMBDA i : s[i] \in keep \/ i = Len(s) \/ s[i + 1] \in keep))

\* regexp.ReplaceAllString(s, c) for the pattern  c+
CollapseRuns(s, c) ==
    LET put(at) == [k \in 1..Len(at) |-> s[at[k]]]
    IN  put(SelectSeq([i \in 1..Len(s) |-> i],
                      LAMBDA i : ~(s[i] = c /\ i < Len(s) /\ s[i + 1] = c)))

RECURSIVE TrimLeft(_, _)
TrimLeft(s, cut) ==
    IF s # <<>> /\ Head(s) \in cut THEN TrimLeft(Tail(s), cut) ELSE s

RECURSIVE TrimRight(_, _)
TrimRight(s, cut) ==
    IF s # <<>> /\ s[Len(s)] \in cut THEN TrimRight(SubSeq(s, 1, Len(s) - 1), cut) ELSE s

\* strings.Trim(s, cutset)
Trim(s, cut) == TrimRight(TrimLeft(s, cut), cut)

\* strings.TrimSpace
TrimSpace(s) == Trim(s, {" "})

\* strings.TrimSpace(value), or the fallback when that is empty
OrDefault(value, fallback) ==
    LET orFallback(trimmed) == IF trimmed = <<>> THEN fallback ELSE trimmed
    IN  orFallback(TrimSpace(value))

\* strings.ReplaceAll for a one-character pattern
ReplaceAll(s, old, new) == [i \in 1..Len(s) |-> IF s[i] = old THEN new ELSE s[i]]

StrDefault == <<"d", "e", "f", "a", "u", "l", "t">>
StrAgentDash == <<"a", "g", "e", "n", "t", "-">>
StrGitDash == <<"g", "i", "t", "-">>
StrToolDash == <<"t", "o", "o", "l", "-">>
StrMain == <<"m", "a", "i", "n">>
StrAgent == <<"a", "g", "e", "n", "t">>
StrLazygit == <<"l", "a", "z", "y", "g", "i", "t">>
StrNvim == <<"n", "v", "i", "m">>
StrNeovim == <<"n", "e", "o", "v", "i", "m">>
StrBash == <<"b", "a", "s", "h">>
StrCodex == <<"c", "o", "d", "e", "x">>
StrTool == <<"t", "o", "o", "l">>
StrLazygitCmd == <<"l", "a", "z", "y", "g", "i", "t", " ", "-", "p", " ", ".">>
StrNvimCmd == <<"n", "v", "i", "m", " ", ".">>

\* safeName without the trim
safeNameUntrimmed(value) ==
    LET s1 == ReplaceRuns(value, SafeChars, "-")
        orDefault(s3) == IF s3 = <<>> THEN StrDefault ELSE s3
    IN  orDefault(CollapseRuns(s1, "-"))

safeName(value) ==
    LET s1 == ReplaceRuns(value, SafeChars, "-")
        s2 == CollapseRuns(s1, "-")
        orDefault(s3) == IF s3 = <<>> THEN StrDefault ELSE s3
    IN  orDefault(Trim(s2, {"-"}))

\* Slugify that collapses the dashes before it replaces the other characters
SlugifyCollapsedFirst(input) ==
    LET s0 == ToLower(input)
        s1 == CollapseRuns(CollapseRuns(s0, "/"), "-")
        s2 == ReplaceAll(ReplaceAll(s1, "_", "-"), " ", "-")
        s3 == ReplaceRuns(s2, SlugChars, "-")
        result(s6) == [ok |-> s6 # <<>>, slug |-> s6]
    IN  result(Trim(s3, {"-", "/"}))

\* Manager.Slugify: [ok, slug]
Slugify(input) ==
    LET s0 == ToLower(input)
        s1 == ReplaceAll(s0, "_", "-")
        s2 == ReplaceAll(s1, " ", "-")
        s3 == ReplaceRuns(s2, SlugChars, "-")
        s4 == CollapseRuns(s3, "/")
        s5 == CollapseRuns(s4, "-")
        result(s6) == [ok |-> s6 # <<>>, slug |-> s6]
    IN  result(Trim(s5, {"-", "/"}))


(* ------------------------------------------------------------------ *)
(* State                                                              *)
(* ------------------------------------------------------------------ *)

VARIABLES
    cfg,        \* Manager.Cfg and the binaries on PATH, frozen for the process
    branches,   \* git: local branches (refs/heads/*)
    worktrees,  \* git: registered working copies, records [path, branch]
    dirs,       \* file system: the paths that exist
    dirty,      \* paths whose `git status --porcelain` output is non-empty
    tmux,       \* tmux server: session name -> sequence of windows
    log,        \* external commands run by the last operation, in order
    last,       \* the last operation: its options and what it returned
    pane,       \* the agent pane the dashboard watches: its rows and activity
    ui,         \* tuiState: the dashboard's lists, selection, caches and maps
    rt          \* the process at run time: clock, goroutines, event queue, locks

vars == <<cfg, branches, worktrees, dirs, dirty, tmux, log, last, pane, ui, rt>>

(* ------------------------------------------------------------------ *)
(* Names and paths                                                    *)
(* ------------------------------------------------------------------ *)

SessionNameCap == 100
WindowNameCap == 60

RepoRoot == <<"/", "r">>

\* filepath.Base
Base(path) ==
    LET element(p) ==
            IF p = <<>> THEN (IF path = <<>> THEN <<".">> ELSE <<"/">>)
            ELSE IF \E i \in 1..Len(p) : p[i] = "/"
            THEN SubSeq(p, 1 + (CHOOSE i \in 1..Len(p) :
                                   p[i] = "/" /\ \A j \in (i+1)..Len(p) : p[j] # "/"),
                        Len(p))
            ELSE p
    IN  element(TrimRight(path, {"/"}))

\* Manager.RepoName: the basename of the parent of the common git dir (/r/.git)
RepoName(repoRoot) == Base(RepoRoot)

\* Manager.WorktreeRootDir with the default template "../{repo}.worktrees"
WorktreeRootDir(repoRoot) ==
    <<"/">> \o RepoName(repoRoot) \o <<".", "w">>

\* NewWorktree: absPath(filepath.Join(worktreeRoot, branch))
WorktreePathFor(repoRoot, branch) == WorktreeRootDir(repoRoot) \o <<"/">> \o branch

tmuxSessionName(repoRoot) ==
    LET join(repo, prefix) == IF prefix = <<>> THEN repo ELSE prefix \o <<"-">> \o repo
    IN  join(safeName(RepoName(repoRoot)), safeName(cfg.SessionPrefix))

tmuxWorktreeSessionNameFrom(repoRoot, branch, worktreePath) ==
    LET join(base, suffix) ==
            IF suffix = <<>> THEN base ELSE Take(base \o <<"-">> \o suffix, SessionNameCap)
    IN  join(tmuxSessionName(repoRoot), safeName(OrDefault(branch, Base(worktreePath))))

worktreeBranchOrName(wt) == IF wt.branch = <<>> THEN Base(wt.path) ELSE wt.branch

tmuxWorktreeSessionName(repoRoot, wt) ==
    tmuxWorktreeSessionNameFrom(repoRoot, worktreeBranchOrName(wt), wt.path)

tmuxWindowName(branch) == Take(safeName(branch), WindowNameCap)

tmuxAgentWindowName(branch) == Take(StrAgentDash \o safeName(branch), WindowNameCap)

tmuxLazygitWindowName(branch) == Take(StrGitDash \o safeName(branch), WindowNameCap)

\* strings.Fields(command)[0], or "" when there is none
FirstField(command) ==
    LET first(t) ==
            IF t = <<>> THEN <<>>
            ELSE IF \E i \in 1..Len(t) : t[i] = " "
            THEN SubSeq(t, 1, (CHOOSE i \in 1..Len(t) :
                                  t[i] = " " /\ \A j \in 1..(i-1) : t[j] # " ") - 1)
            ELSE t
    IN  first(TrimSpace(command))

commandExecutableName(command) ==
    LET name(field) == IF field = <<>> THEN <<>> ELSE Base(field)
    IN  name(FirstField(command))

Shells == {StrBash, <<"z", "s", "h">>, <<"f", "i", "s", "h">>, <<"s", "h">>,
           <<"d", "a", "s", "h">>, <<"k", "s", "h">>, <<"c", "s", "h">>,
           <<"t", "c", "s", "h">>}

commandShouldRemainOnExit(command) ==
    LET notShell(execName) == execName # <<>> /\ execName \notin Shells
    IN  notShell(ToLower(TrimSpace(commandExecutableName(command))))

\* $SHELL
defaultShellCommand == StrBash

commandExists(name) == name \in cfg.installed

agentCommand ==
    IF TrimSpace(cfg.AgentCommand) # <<>> THEN TrimSpace(cfg.AgentCommand)
    ELSE IF commandExists(StrCodex) THEN StrCodex
    ELSE defaultShellCommand

trimTmuxWindowName(name) == Take(OrDefault(name, StrMain), WindowNameCap)

tmuxCustomWindowName(command) ==
    LET named(execName) ==
            trimTmuxWindowName(StrToolDash \o (IF execName = <<>> THEN StrTool ELSE execName))
    IN  named(safeName(commandExecutableName(command)))


RECURSIVE Itoa(_)
\* strconv.Itoa for i >= 0
Itoa(i) == IF i < 10 THEN <<Digits[i + 1]>> ELSE Itoa(i \div 10) \o <<Digits[(i % 10) + 1]>>

\* the candidate nextTmuxWindowName tries for suffix number i
WindowNameCandidate(name, i) ==
    LET suffixed(suffix) ==
            Take(name, IF WindowNameCap - Len(suffix) < 1 THEN 1
                       ELSE WindowNameCap - Len(suffix)) \o suffix
    IN  suffixed(<<"-">> \o Itoa(i))

RECURSIVE NextFreeSuffix(_, _, _)
NextFreeSuffix(name, seen, i) ==
    LET try(candidate) ==
            IF candidate \in seen THEN NextFreeSuffix(name, seen, i + 1) ELSE candidate
    IN  try(WindowNameCandidate(name, i))

\* a nextTmuxWindowName that returns a taken name as it is
nextTmuxWindowNameTaken(base, seen) == trimTmuxWindowName(base)

\* nextTmuxWindowName: the name it returns (the caller adds it to seen)
nextTmuxWindowName(base, seen) ==
    LET free(name) == IF name \notin seen THEN name ELSE NextFreeSuffix(name, seen, 2)
    IN  free(trimTmuxWindowName(base))

\* normalizeSessionTools (config.go)
RECURSIVE normalizeSessionTools(_)
normalizeSessionTools(values) ==
    IF values = <<>> THEN <<>>
    ELSE LET known(tool, low) ==
                 IF low = StrAgent THEN StrAgent
                 ELSE IF low = StrLazygit THEN StrLazygit
                 ELSE IF low \in {StrNvim, StrNeovim} THEN StrNvim
                 ELSE tool
             add(tool, rest) ==
                 IF tool = <<>> THEN rest ELSE <<known(tool, ToLower(tool))>> \o rest
         IN  add(TrimSpace(Head(values)), normalizeSessionTools(Tail(values)))

\* a tmuxConfiguredWindows that does not look for lazygit and nvim on PATH
ToolWindowSpecUnfiltered(tool, branch) ==
    LET spec(low) ==
            IF low = StrAgent
                THEN [Base |-> tmuxAgentWindowName(branch), Command |-> TrimSpace(agentCommand)]
            ELSE IF low = StrLazygit
                THEN [Base |-> tmuxLazygitWindowName(branch), Command |-> StrLazygitCmd]
            ELSE IF low \in {StrNvim, StrNeovim}
                THEN [Base |-> tmuxWindowName(branch), Command |-> StrNvimCmd]
            ELSE [Base |-> tmuxCustomWindowName(TrimSpace(tool)), Command |-> TrimSpace(tool)]
    IN  spec(ToLower(TrimSpace(tool)))

\* one iteration of the loop of tmuxConfiguredWindows: the window spec for a
\* tool, or Name = <<>> when the tool is skipped
ToolWindowSpec(tool, branch) ==
    LET spec(low) ==
            IF low = StrAgent
                THEN [Base |-> tmuxAgentWindowName(branch), Command |-> TrimSpace(agentCommand)]
            ELSE IF low = StrLazygit
                THEN IF commandExists(StrLazygit)
                     THEN [Base |-> tmuxLazygitWindowName(branch), Command |-> StrLazygitCmd]
                     ELSE [Base |-> <<>>, Command |-> <<>>]
            ELSE IF low \in {StrNvim, StrNeovim}
                THEN IF commandExists(StrNvim)
                     THEN [Base |-> tmuxWindowName(branch), Command |-> StrNvimCmd]
                     ELSE [Base |-> <<>>, Command |-> <<>>]
            ELSE [Base |-> tmuxCustomWindowName(TrimSpace(tool)), Command |-> TrimSpace(tool)]
    IN  spec(ToLower(TrimSpace(tool)))

RECURSIVE ConfiguredWindowsFrom(_, _, _)
ConfiguredWindowsFrom(tools, branch, seen) ==
    IF tools = <<>> THEN <<>>
    ELSE LET named(name, command) ==
                 <<[Name |-> name, Command |-> command]>>
                 \o ConfiguredWindowsFrom(Tail(tools), branch, seen \cup {name})
             add(spec) ==
                 IF spec.Command = <<>> THEN ConfiguredWindowsFrom(Tail(tools), branch, seen)
                 ELSE named(nextTmuxWindowName(spec.Base, seen), spec.Command)
         IN  add(ToolWindowSpec(Head(tools), branch))

tmuxConfiguredWindows(branch) ==
    ConfiguredWindowsFrom(normalizeSessionTools(cfg.SessionTools), branch, {})


(* ------------------------------------------------------------------ *)
(* Errors of external commands                                        *)
(* ------------------------------------------------------------------ *)

\* The text of the error runCmdBytesWithTimeout returns, per kind of failure
\* ("" is success).  Two characters are upper case so that ToLower matters.
ErrText(kind) ==
    IF kind = "timeout" THEN
        <<"g", "i", "t", " ", "w", "o", "r", "k", "t", "r", "e", "e", " ", "t", "i", "m", "e", "d", " ", "o", "u", "t", " ", "a", "f", "t", "e", "r", " ", "4", "5", "s">>
    ELSE IF kind = "branch-exists" THEN
        <<"f", "a", "t", "a", "l", ":", " ", "a", " ", "b", "r", "a", "n", "c", "h", " ", "n", "a", "m", "e", "d", " ", "'", "b", "'", " ", "a", "l", "r", "e", "a", "d", "y", " ", "e", "x", "i", "s", "t", "s">>
    ELSE IF kind = "path-exists" THEN
        <<"f", "a", "t", "a", "l", ":", " ", "'", "/", "p", "'", " ", "a", "l", "r", "e", "a", "d", "y", " ", "e", "x", "i", "s", "t", "s">>
    ELSE IF kind = "checked-out" THEN
        <<"f", "a", "t", "a", "l", ":", " ", "'", "b", "'", " ", "i", "s", " ", "a", "l", "r", "e", "a", "d", "y", " ", "c", "h", "e", "c", "k", "e", "d", " ", "o", "u", "t", " ", "a", "t", " ", "'", "/", "p", "'">>
    ELSE IF kind = "registered" THEN
        <<"f", "a", "t", "a", "l", ":", " ", "'", "/", "p", "'", " ", "i", "s", " ", "a", " ", "m", "i", "s", "s", "i", "n", "g", " ", "b", "u", "t", " ", "a", "l", "r", "e", "a", "d", "y", " ", "r", "e", "g", "i", "s", "t", "e", "r", "e", "d", " ", "w", "o", "r", "k", "t", "r", "e", "e">>
    ELSE IF kind = "cannot-lock" THEN
        <<"f", "a", "t", "a", "l", ":", " ", "c", "a", "n", "n", "o", "t", " ", "l", "o", "c", "k", " ", "r", "e", "f">>
    ELSE IF kind = "unable-create" THEN
        <<"f", "a", "t", "a", "l", ":", " ", "U", "n", "a", "b", "l", "e", " ", "t", "o", " ", "c", "r", "e", "a", "t", "e", " ", "'", "/", "r", "/", ".", "g", "i", "t", "/", "i", "n", "d", "e", "x", ".", "l", "o", "c", "k", "'">>
    ELSE IF kind = "cannot-create" THEN
        <<"f", "a", "t", "a", "l", ":", " ", "c", "a", "n", "n", "o", "t", " ", "c", "r", "e", "a", "t", "e", " ", "d", "i", "r", "e", "c", "t", "o", "r", "y", " ", "a", "t", " ", "'", "/", "p", "'">>
    ELSE IF kind = "invalid-ref" THEN
        <<"f", "a", "t", "a", "l", ":", " ", "i", "n", "v", "a", "l", "i", "d", " ", "r", "e", "f", "e", "r", "e", "n", "c", "e", ":", " ", "b">>
    ELSE IF kind = "is-locked" THEN
        <<"f", "a", "t", "a", "l", ":", " ", "'", "/", "p", "'", " ", "i", "s", " ", "l", "o", "c", "k", "e", "d">>
    ELSE IF kind = "cannot-remove" THEN
        <<"f", "a", "t", "a", "l", ":", " ", "c", "a", "n", "n", "o", "t", " ", "r", "e", "m", "o", "v", "e", " ", "a", " ", "l", "o", "c", "k", "e", "d", " ", "w", "o", "r", "k", "i", "n", "g", " ", "t", "r", "e", "e">>
    ELSE IF kind = "not-worktree" THEN
        <<"f", "a", "t", "a", "l", ":", " ", "'", "/", "p", "'", " ", "i", "s", " ", "n", "o", "t", " ", "a", " ", "w", "o", "r", "k", "i", "n", "g", " ", "t", "r", "e", "e">>
    ELSE IF kind = "main-worktree" THEN
        <<"f", "a", "t", "a", "l", ":", " ", "'", "/", "p", "'", " ", "i", "s", " ", "a", " ", "m", "a", "i", "n", " ", "w", "o", "r", "k", "i", "n", "g", " ", "t", "r", "e", "e">>
    ELSE IF kind = "dirty-tree" THEN
        <<"f", "a", "t", "a", "l", ":", " ", "'", "/", "p", "'", " ", "c", "o", "n", "t", "a", "i", "n", "s", " ", "m", "o", "d", "i", "f", "i", "e", "d", " ", "o", "r", " ", "u", "n", "t", "r", "a", "c", "k", "e", "d", " ", "f", "i", "l", "e", "s", ",", " ", "u", "s", "e", " ", "-", "-", "f", "o", "r", "c", "e", " ", "t", "o", " ", "d", "e", "l", "e", "t", "e", " ", "i", "t">>
    ELSE IF kind = "branch-in-use" THEN
        <<"e", "r", "r", "o", "r", ":", " ", "C", "a", "n", "n", "o", "t", " ", "d", "e", "l", "e", "t", "e", " ", "b", "r", "a", "n", "c", "h", " ", "'", "b", "'", " ", "c", "h", "e", "c", "k", "e", "d", " ", "o", "u", "t", " ", "a", "t", " ", "'", "/", "p", "'">>
    ELSE IF kind = "branch-missing" THEN
        <<"e", "r", "r", "o", "r", ":", " ", "b", "r", "a", "n", "c", "h", " ", "'", "b", "'", " ", "n", "o", "t", " ", "f", "o", "u", "n", "d">>
    ELSE IF kind = "tmux" THEN
        <<"t", "m", "u", "x", " ", "f", "a", "i", "l", "e", "d", ":", " ", "e", "x", "i", "t", " ", "s", "t", "a", "t", "u", "s", " ", "1">>
    ELSE IF kind = "io" THEN
        <<"e", "x", "i", "t", " ", "s", "t", "a", "t", "u", "s", " ", "1", "2", "8">>
    ELSE <<>>

\* strings.Contains
Contains(s, sub) ==
    \E i \in 1..(Len(s) - Len(sub) + 1) : SubSeq(s, i, i + Len(sub) - 1) = sub

\* a retry rule that retries after every failure
shouldRetryAnyFailure(err) == err # ""

shouldRetryWorktreeAdd(err) ==
    /\ err # ""
    /\ \E msg \in {ToLower(ErrText(err))} :
           \/ Contains(msg, <<"t", "i", "m", "e", "d", " ", "o", "u", "t">>)
           \/ Contains(msg, <<"a", "l", "r", "e", "a", "d", "y", " ", "c", "h", "e", "c", "k", "e", "d", " ", "o", "u", "t">>)
           \/ Contains(msg, <<"a", "l", "r", "e", "a", "d", "y", " ", "e", "x", "i", "s", "t", "s">>)
           \/ Contains(msg, <<"a", "l", "r", "e", "a", "d", "y", " ", "r", "e", "g", "i", "s", "t", "e", "r", "e", "d">>)
           \/ Contains(msg, <<"u", "n", "a", "b", "l", "e", " ", "t", "o", " ", "c", "r", "e", "a", "t", "e">>)
           \/ Contains(msg, <<"c", "a", "n", "n", "o", "t", " ", "l", "o", "c", "k">>)

shouldRetryWorktreeRemove(err) ==
    /\ err # ""
    /\ \E msg \in {ToLower(ErrText(err))} :
           \/ Contains(msg, <<"t", "i", "m", "e", "d", " ", "o", "u", "t">>)
           \/ Contains(msg, <<"i", "s", " ", "l", "o", "c", "k", "e", "d">>)
           \/ Contains(msg, <<"c", "a", "n", "n", "o", "t", " ", "r", "e", "m", "o", "v", "e">>)
           \/ Contains(msg, <<"c", "a", "n", "n", "o", "t", " ", "l", "o", "c", "k">>)


(* ------------------------------------------------------------------ *)
(* The world an operation runs in: git, the file system and tmux, the  *)
(* commands run so far, and the faults the environment will inject.    *)
(* w.faults is the set of ordinals of the tmux commands that fail      *)
(* although tmux could have carried them out.                          *)
(* ------------------------------------------------------------------ *)

World(faults) ==
    [tmux |-> tmux, branches |-> branches, worktrees |-> worktrees, dirs |-> dirs,
     dirty |-> dirty, log |-> <<>>, n |-> 0, faults |-> faults, ok |-> TRUE, err |-> "",
     win |-> <<>>, warnings |-> <<>>, path |-> <<>>, branch |-> <<>>, flag |-> FALSE]

\* a handler returning nil
Ok(w) == [w EXCEPT !.ok = TRUE, !.err = ""]

\* a handler returning an error of its own (no command run)
Fail(w, err) == [w EXCEPT !.ok = FALSE, !.err = err]

\* a non-fatal warning is appended and the handler goes on
Warn(w, text) == [w EXCEPT !.warnings = Append(@, text), !.ok = TRUE, !.err = ""]

\* runCmdBytesWithTimeout: the command is run, and its outcome is returned
Ran(w, cmd, tgt, err) ==
    [w EXCEPT !.log = Append(@, [cmd |-> cmd, tgt |-> tgt, err |-> err]),
              !.ok = (err = ""), !.err = err]

\* commandExists("tmux")
hasTmux == commandExists(<<"t", "m", "u", "x">>)

\* the next tmux command fails when there is no tmux to run, or when the
\* environment makes it fail
TmuxFault(w) == ~hasTmux \/ (w.n + 1) \in w.faults

Counted(w) == [w EXCEPT !.n = @ + 1]

NewPane(cmd) == [cmd |-> cmd, keys |-> <<>>]

NewWindow(name, cmd) == [name |-> name, panes |-> <<NewPane(cmd)>>, roe |-> FALSE, layout |-> ""]

\* tmux resolves a window target by name to the first window of that name
WindowIndex(wins, name) ==
    CHOOSE i \in 1..Len(wins) : wins[i].name = name /\ \A j \in 1..(i-1) : wins[j].name # name

RemoveAt(seq, i) == SubSeq(seq, 1, i - 1) \o SubSeq(seq, i + 1, Len(seq))

DropKey(f, k) == [x \in (DOMAIN f) \ {k} |-> f[x]]

\* tmux has-session -t session
tmuxHasSession(w, session) == session \in DOMAIN w.tmux

\* tmux has-session -t session:window
tmuxWindowExists(w, session, window) ==
    /\ session \in DOMAIN w.tmux
    /\ \E i \in 1..Len(w.tmux[session]) : w.tmux[session][i].name = window

\* tmux new-session -d -s session -n window command
TmuxNewSession(w, session, window, command) ==
    IF TmuxFault(w) \/ tmuxHasSession(w, session)
    THEN Ran(Counted(w), "new-session", <<session, window>>, "tmux")
    ELSE Ran([Counted(w) EXCEPT !.tmux = (session :> <<NewWindow(window, command)>>) @@ @],
             "new-session", <<session, window>>, "")

\* tmux new-window -d -t session -n window command
TmuxNewWindow(w, session, window, command) ==
    IF TmuxFault(w) \/ ~tmuxHasSession(w, session)
    THEN Ran(Counted(w), "new-window", <<session, window>>, "tmux")
    ELSE Ran([Counted(w) EXCEPT !.tmux[session] = Append(@, NewWindow(window, command))],
             "new-window", <<session, window>>, "")

\* Manager.tmuxSetRemainOnExit
tmuxSetRemainOnExit(w, session, window) ==
    IF TmuxFault(w) \/ ~tmuxWindowExists(w, session, window)
    THEN Ran(Counted(w), "set-window-option", <<session, window>>, "tmux")
    ELSE Ran([Counted(w) EXCEPT
                 !.tmux[session][WindowIndex(w.tmux[session], window)].roe = TRUE],
             "set-window-option", <<session, window>>, "")

\* a kill-session that reports success and leaves the session alive
TmuxKillSessionKept(w, session) == Ran(Counted(w), "kill-session", <<session>>, "")

\* tmux kill-session -t session
TmuxKillSession(w, session) ==
    IF TmuxFault(w) \/ ~tmuxHasSession(w, session)
    THEN Ran(Counted(w), "kill-session", <<session>>, "tmux")
    ELSE Ran([Counted(w) EXCEPT !.tmux = DropKey(@, session)], "kill-session", <<session>>, "")

\* tmux kill-window -t session:window; tmux destroys a session with its last window
TmuxKillWindow(w, session, window) ==
    IF TmuxFault(w) \/ ~tmuxWindowExists(w, session, window)
    THEN Ran(Counted(w), "kill-window", <<session, window>>, "tmux")
    ELSE LET without(left) ==
                 Ran([Counted(w) EXCEPT !.tmux = IF left = <<>> THEN DropKey(@, session)
                                                  ELSE [@ EXCEPT ![session] = left]],
                     "kill-window", <<session, window>>, "")
         IN  without(RemoveAt(w.tmux[session], WindowIndex(w.tmux[session], window)))

\* tmux split-window -t session:window command
TmuxSplitWindow(w, session, window, command) ==
    IF TmuxFault(w) \/ ~tmuxWindowExists(w, session, window)
    THEN Ran(Counted(w), "split-window", <<session, window>>, "tmux")
    ELSE Ran([Counted(w) EXCEPT
                 !.tmux[session][WindowIndex(w.tmux[session], window)].panes =
                     Append(@, NewPane(command))],
             "split-window", <<session, window>>, "")

\* tmux select-layout -t session:window layout
TmuxSelectLayout(w, session, window, layout) ==
    IF TmuxFault(w) \/ ~tmuxWindowExists(w, session, window)
    THEN Ran(Counted(w), "select-layout", <<session, window>>, "tmux")
    ELSE Ran([Counted(w) EXCEPT
                 !.tmux[session][WindowIndex(w.tmux[session], window)].layout = layout],
             "select-layout", <<session, window>>, "")

\* tmuxSendPaneCommand to pane 0: send-keys -l command, then send-keys C-m
tmuxSendPaneCommand(w, session, window, command) ==
    IF TrimSpace(command) = <<>> THEN Fail(w, "empty-command")
    ELSE IF TmuxFault(w) \/ ~tmuxWindowExists(w, session, window)
    THEN Ran(Counted(w), "send-keys", <<session, window>>, "tmux")
    ELSE LET enter(w1) ==
                 IF TmuxFault(w1)
                 THEN Ran(Counted(w1), "send-keys", <<session, window>>, "tmux")
                 ELSE Ran([Counted(w1) EXCEPT
                              !.tmux[session][WindowIndex(w.tmux[session], window)]
                                  .panes[1].keys = Append(@, TrimSpace(command))],
                          "send-keys", <<session, window>>, "")
         IN  enter(Ran(Counted(w), "send-keys", <<session, window>>, ""))

\* a tmux command that changes no state the model keeps
\* (select-window, switch-client, attach-session)
TmuxFocusCmd(w, cmd, tgt, exists) ==
    IF TmuxFault(w) \/ ~exists THEN Ran(Counted(w), cmd, tgt, "tmux")
    ELSE Ran(Counted(w), cmd, tgt, "")


(* ------------------------------------------------------------------ *)
(* git, as the commands of the Manager see it                         *)
(* ------------------------------------------------------------------ *)

\* filepath.Dir
Dir(path) ==
    LET parent(p) ==
            IF \E i \in 1..Len(p) : p[i] = "/"
            THEN LET cut(k) == IF k = 1 THEN <<"/">> ELSE SubSeq(p, 1, k - 1)
                 IN  cut(CHOOSE i \in 1..Len(p) :
                             p[i] = "/" /\ \A j \in (i+1)..Len(p) : p[j] # "/")
            ELSE <<".">>
    IN  parent(TrimRight(path, {"/"}))

RECURSIVE Ancestors(_)
\* the directories os.MkdirAll(path) makes sure exist
Ancestors(path) == IF path \in {<<"/">>, <<".">>} THEN {path} ELSE {path} \cup Ancestors(Dir(path))

\* git show-ref --verify --quiet refs/heads/<branch>
BranchExists(w, branch) == branch \in w.branches

Registered(w, path) == \E wt \in w.worktrees : wt.path = path

CheckedOut(w, branch) == \E wt \in w.worktrees : wt.branch = branch

\* what git answers to `worktree add [-b] ...` when nothing else goes wrong
WorktreeAddRefusal(w, path, branch, newBranch, base) ==
    IF newBranch /\ branch \in w.branches THEN "branch-exists"
    ELSE IF newBranch /\ base \notin w.branches THEN "invalid-ref"
    ELSE IF ~newBranch /\ branch \notin (w.branches \cup cfg.remotes) THEN "invalid-ref"
    ELSE IF path \in w.dirs THEN "path-exists"
    ELSE IF Registered(w, path) THEN "registered"
    ELSE IF ~newBranch /\ CheckedOut(w, branch) THEN "checked-out"
    ELSE ""

\* runCmdQuietTimeout(repoRoot, timeout, "git", "worktree", "add", ...);
\* fault is the failure the environment injects ("" for none)
GitWorktreeAdd(w, path, branch, newBranch, base, fault) ==
    LET answer(err) ==
            IF err # "" THEN Ran(w, "worktree-add", <<path, branch>>, err)
            ELSE Ran([w EXCEPT !.branches = @ \cup {branch},
                               !.worktrees = @ \cup {[path |-> path, branch |-> branch]},
                               !.dirs = @ \cup Ancestors(path)],
                     "worktree-add", <<path, branch>>, "")
    IN  answer(IF fault # "" THEN fault
               ELSE WorktreeAddRefusal(w, path, branch, newBranch, base))

\* git worktree prune: forget the working copies whose directory is gone
GitWorktreePrune(w, fault) ==
    IF fault # "" THEN Ran(w, "worktree-prune", <<>>, fault)
    ELSE Ran([w EXCEPT !.worktrees = {wt \in @ : wt.path \in w.dirs}],
             "worktree-prune", <<>>, "")

WorktreeRemoveRefusal(w, path, force) ==
    IF ~Registered(w, path) THEN "not-worktree"
    ELSE IF path = RepoRoot THEN "main-worktree"
    ELSE IF path \in w.dirs /\ path \in w.dirty /\ ~force THEN "dirty-tree"
    ELSE ""

\* Manager.runGitWorktreeRemove
runGitWorktreeRemove(w, worktreePath, force, fault) ==
    LET answer(err) ==
            IF err # "" THEN Ran(w, "worktree-remove", <<worktreePath>>, err)
            ELSE Ran([w EXCEPT !.worktrees = {wt \in @ : wt.path # worktreePath},
                               !.dirs = @ \ {worktreePath},
                               !.dirty = @ \ {worktreePath}],
                     "worktree-remove", <<worktreePath>>, "")
    IN  answer(IF fault # "" THEN fault ELSE WorktreeRemoveRefusal(w, worktreePath, force))

\* git branch -d|-D <branch>
GitBranchDelete(w, branch, force, fault) ==
    LET answer(err) ==
            IF err # "" THEN Ran(w, "branch-delete", <<branch>>, err)
            ELSE Ran([w EXCEPT !.branches = @ \ {branch}], "branch-delete", <<branch>>, "")
    IN  answer(IF fault # "" THEN fault
               ELSE IF branch \notin w.branches THEN "branch-missing"
               ELSE IF CheckedOut(w, branch) THEN "branch-in-use"
               ELSE "")

\* the failures the environment can inject into a git command: a timeout
\* (runCmdBytesWithTimeout's deadline) and an I/O failure
AddFaults == {"", "timeout", "io"}

RemoveFaults == {"", "timeout", "io"}

PruneFaults == {"", "io"}

BranchDeleteFaults == {"", "io"}

\* Manager.runGitWorktreeAdd: the worlds it can end in
runGitWorktreeAdd(w, path, branch, newBranch, base) ==
    UNION { IF w1.ok THEN {w1}
            ELSE IF shouldRetryWorktreeAdd(w1.err)
                 THEN UNION { {GitWorktreeAdd(w2, path, branch, newBranch, base, f2) :
                                 f2 \in AddFaults} :
                              w2 \in {GitWorktreePrune(w1, fp) : fp \in PruneFaults} }
                 ELSE {w1}
          : w1 \in {GitWorktreeAdd(w, path, branch, newBranch, base, f1) : f1 \in AddFaults} }

\* os.Stat failing other than with not-exist, os.MkdirAll failing, or both
\* succeeding and the parent directories of the path existing from then on
StatAndMkdir(w, worktreePath) ==
    {Fail(w, "stat"), Fail(w, "mkdir"),
     Ok([w EXCEPT !.dirs = @ \cup Ancestors(Dir(worktreePath))])}

\* a CreateWorktreeWithBranch that leaves both checks to git
CreateWorktreeWithBranchUnchecked(w, branch, worktreePath, baseBranch) ==
    UNION {IF m.ok THEN runGitWorktreeAdd(m, worktreePath, branch, TRUE, baseBranch)
           ELSE {m} : m \in StatAndMkdir(w, worktreePath)}

\* Manager.CreateWorktreeWithBranch
CreateWorktreeWithBranch(w, branch, worktreePath, baseBranch) ==
    IF BranchExists(w, branch) THEN {Fail(w, "branch already exists")}
    ELSE IF worktreePath \in w.dirs THEN {Fail(w, "target path already exists")}
    ELSE UNION {IF m.ok THEN runGitWorktreeAdd(m, worktreePath, branch, TRUE, baseBranch)
                ELSE {m} : m \in StatAndMkdir(w, worktreePath)}

\* Manager.CreateWorktreeFromExisting
CreateWorktreeFromExisting(w, branch, worktreePath) ==
    IF worktreePath \in w.dirs THEN {Fail(w, "target path already exists")}
    ELSE UNION {IF m.ok THEN runGitWorktreeAdd(m, worktreePath, branch, FALSE, <<>>)
                ELSE {m} : m \in StatAndMkdir(w, worktreePath)}

(* ------------------------------------------------------------------ *)
(* Session Coordinator                                                *)
(* ------------------------------------------------------------------ *)

\* `if err != nil { return err }`: the next step runs unless the last one failed
Then(w, step(_)) == IF w.ok THEN step(w) ELSE w

tmuxEnsureSession(w, session, initialWindow, initialCommand) ==
    IF tmuxHasSession(w, session) THEN Ok(w)
    ELSE LET create(window, command) ==
                 Then(TmuxNewSession(w, session, window, command),
                      LAMBDA w1 : IF commandShouldRemainOnExit(command)
                                  THEN tmuxSetRemainOnExit(w1, session, window)
                                  ELSE Ok(w1))
         IN  create(OrDefault(initialWindow, StrMain),
                    OrDefault(initialCommand, defaultShellCommand))

\* an ensure-window that creates the window without looking for it
tmuxEnsureWindowAlways(w, session, window, command) ==
    LET create(cmd) ==
            Then(TmuxNewWindow(w, session, window, cmd),
                 LAMBDA w1 : IF commandShouldRemainOnExit(cmd)
                             THEN tmuxSetRemainOnExit(w1, session, window)
                             ELSE Ok(w1))
    IN  create(OrDefault(command, defaultShellCommand))

tmuxEnsureWindow(w, session, window, command) ==
    IF tmuxWindowExists(w, session, window) THEN Ok(w)
    ELSE LET create(cmd) ==
                 Then(TmuxNewWindow(w, session, window, cmd),
                      LAMBDA w1 : IF commandShouldRemainOnExit(cmd)
                                  THEN tmuxSetRemainOnExit(w1, session, window)
                                  ELSE Ok(w1))
         IN  create(OrDefault(command, defaultShellCommand))

\* Manager.tmuxFocusWindow
tmuxFocusWindow(w, session, window, attachOutside) ==
    Then(TmuxFocusCmd(w, "select-window", <<session, window>>,
                      tmuxWindowExists(w, session, window)),
         LAMBDA w1 :
             IF cfg.insideTmux
             THEN TmuxFocusCmd(w1, "switch-client", <<session>>, tmuxHasSession(w1, session))
             ELSE IF attachOutside
             THEN TmuxFocusCmd(w1, "attach-session", <<session>>, tmuxHasSession(w1, session))
             ELSE Ok(w1))

RECURSIVE SplitPanes(_, _, _, _, _)
\* tmuxLaunchWindowedSession: the split-window loop over panes j >= 1 (1-based: j >= 2)
SplitPanes(w, session, winName, panes, j) ==
    IF j > Len(panes) THEN Ok(w)
    ELSE Then(TmuxSplitWindow(w, session, winName, panes[j].Run),
              LAMBDA w1 : SplitPanes(w1, session, winName, panes, j + 1))

\* tmuxLaunchWindowedSession: the command of a window's first pane
Pane0Cmd(win) ==
    IF Len(win.Panes) > 0 /\ TrimSpace(win.Panes[1].Run) # <<>>
    THEN TrimSpace(win.Panes[1].Run) ELSE defaultShellCommand

\* tmuxLaunchWindowedSession: the layout applied to a window ("" for none)
WindowLayout(win) ==
    IF Len(win.Panes) <= 1 THEN ""
    ELSE IF win.Layout = "" THEN "even-horizontal" ELSE win.Layout

RECURSIVE LaunchWindows(_, _, _, _, _)
\* tmuxLaunchWindowedSession: the loop over windows, from window i (1-based)
LaunchWindows(w, session, windows, i, sessionIsNew) ==
    IF i > Len(windows) THEN Ok(w)
    ELSE LET window(winName, pane0Cmd, panes, layout) ==
                 Then(IF i = 1 /\ sessionIsNew
                      THEN tmuxEnsureSession(w, session, winName, pane0Cmd)
                      ELSE tmuxEnsureWindow(w, session, winName, pane0Cmd),
                      LAMBDA w1 :
                          IF ~sessionIsNew
                          THEN LaunchWindows(w1, session, windows, i + 1, sessionIsNew)
                          ELSE Then(SplitPanes(w1, session, winName, panes, 2),
                                    LAMBDA w2 :
                                        LaunchWindows(
                                            IF layout # ""
                                            THEN Ok(TmuxSelectLayout(w2, session, winName, layout))
                                            ELSE w2,
                                            session, windows, i + 1, sessionIsNew)))
         IN  window(trimTmuxWindowName(windows[i].Name), Pane0Cmd(windows[i]),
                    windows[i].Panes, WindowLayout(windows[i]))

\* the window a launch focuses: the first one configured
Focus(w, name) == IF w.ok THEN [w EXCEPT !.win = name] ELSE w

\* Manager.tmuxLaunchWindowedSession; the window to focus is returned in .win
tmuxLaunchWindowedSession(w, session, windows) ==
    Focus(LaunchWindows(w, session, windows, 1, ~tmuxHasSession(w, session)),
          IF Len(windows) > 0 THEN trimTmuxWindowName(windows[1].Name) ELSE <<>>)

RECURSIVE LegacyPanes(_, _, _, _, _, _)
\* tmuxEnsureWorktreeWindow, legacy layout: the loop over the panes of window i
LegacyPanes(w, session, winName, panes, i, j) ==
    IF j > Len(panes) THEN Ok(w)
    ELSE IF i = 1 /\ j = 1 /\ ~tmuxHasSession(w, session)
         THEN LegacyPanes(w, session, winName, panes, i, j + 1)
    ELSE IF j = 1
         THEN LegacyPanes(IF panes[j].Command # <<>>
                          THEN Ok(tmuxSendPaneCommand(w, session, winName, panes[j].Command))
                          ELSE w,
                          session, winName, panes, i, j + 1)
    ELSE Then(TmuxSplitWindow(w, session, winName, panes[j].Command),
              LAMBDA w1 : LegacyPanes(w1, session, winName, panes, i, j + 1))

RECURSIVE LegacyWindows(_, _, _, _)
\* tmuxEnsureWorktreeWindow, legacy layout: the loop over windows, from window i
LegacyWindows(w, session, windows, i) ==
    IF i > Len(windows) THEN Ok(w)
    ELSE LET window(winName, panes) ==
                 Then(IF i = 1 /\ ~tmuxHasSession(w, session)
                      THEN tmuxEnsureSession(w, session, winName,
                                             IF Len(panes) > 0 THEN panes[1].Command
                                             ELSE defaultShellCommand)
                      ELSE Ok(w),
                      LAMBDA w1 :
                          Then(tmuxEnsureWindow(w1, session, winName, <<>>),
                               LAMBDA w2 :
                                   Then(LegacyPanes(w2, session, winName, panes, i, 1),
                                        LAMBDA w3 :
                                            LegacyWindows(
                                                Ok(TmuxSelectLayout(w3, session, winName,
                                                                    "even-vertical")),
                                                session, windows, i + 1))))
         IN  window(trimTmuxWindowName(windows[i].Name), windows[i].Panes)

RECURSIVE EnsureWindows(_, _, _, _)
\* tmuxEnsureWorktreeWindow, tool list: the loop ensuring every window
EnsureWindows(w, session, windows, i) ==
    IF i > Len(windows) THEN Ok(w)
    ELSE Then(tmuxEnsureWindow(w, session, windows[i].Name, windows[i].Command),
              LAMBDA w1 : EnsureWindows(w1, session, windows, i + 1))

\* the windows of the tool-list mode, with the login-shell fallback
ToolWindows(branch) ==
    LET orShell(windows) ==
            IF Len(windows) = 0
            THEN <<[Name |-> tmuxWindowName(branch), Command |-> defaultShellCommand]>>
            ELSE windows
    IN  orShell(tmuxConfiguredWindows(branch))

\* tmuxEnsureWorktreeWindow, tool list
ToolSession(w, session, windows) ==
    Focus(Then(IF ~tmuxHasSession(w, session)
               THEN tmuxEnsureSession(w, session, windows[1].Name, windows[1].Command)
               ELSE Ok(w),
               LAMBDA w1 : EnsureWindows(w1, session, windows, 1)),
          windows[1].Name)

\* tmuxEnsureWorktreeWindow, legacy layout
LegacySession(w, session, windows) ==
    Focus(LegacyWindows(w, session, windows, 1), trimTmuxWindowName(windows[1].Name))

\* a tmuxEnsureWorktreeWindow that prefers the legacy layout to the structured windows
tmuxEnsureWorktreeWindowLegacyFirst(w, repoRoot, branch, worktreePath) ==
    LET ensure(session, repoName) ==
            IF repoName \in DOMAIN cfg.SessionLayouts
               /\ Len(cfg.SessionLayouts[repoName].Windows) > 0
            THEN LegacySession(w, session, cfg.SessionLayouts[repoName].Windows)
            ELSE IF Len(cfg.Windows) > 0
            THEN tmuxLaunchWindowedSession(w, session, cfg.Windows)
            ELSE ToolSession(w, session, ToolWindows(branch))
    IN  ensure(tmuxWorktreeSessionNameFrom(repoRoot, branch, worktreePath), RepoName(repoRoot))

\* Manager.tmuxEnsureWorktreeWindow; the window to focus is returned in .win
tmuxEnsureWorktreeWindow(w, repoRoot, branch, worktreePath) ==
    LET ensure(session, repoName) ==
            IF Len(cfg.Windows) > 0
            THEN tmuxLaunchWindowedSession(w, session, cfg.Windows)
            ELSE IF repoName \in DOMAIN cfg.SessionLayouts
                    /\ Len(cfg.SessionLayouts[repoName].Windows) > 0
            THEN LegacySession(w, session, cfg.SessionLayouts[repoName].Windows)
            ELSE ToolSession(w, session, ToolWindows(branch))
    IN  ensure(tmuxWorktreeSessionNameFrom(repoRoot, branch, worktreePath), RepoName(repoRoot))

\* Manager.LaunchOrFocus
LaunchOrFocus(w, repoRoot, branch, worktreePath, attachOutside) ==
    IF ~hasTmux THEN Fail(w, "tmux is required")
    ELSE Then(tmuxEnsureWorktreeWindow(w, repoRoot, branch, worktreePath),
              LAMBDA w1 : tmuxFocusWindow(
                              w1, tmuxWorktreeSessionNameFrom(repoRoot, branch, worktreePath),
                              w1.win, attachOutside))


(* ------------------------------------------------------------------ *)
(* Orchestrator                                                       *)
(* ------------------------------------------------------------------ *)

\* the characters of the model in byte order (Go compares strings bytewise)
CharOrder ==
    <<" ", "'", "-", ".", "/", "0", "1", "2", "3", "4", "5", "6", "7", "8", "9", ":", "A", "C", "F", "U", "X", "_", "a", "b", "c", "d", "e", "f", "g", "h", "i", "j", "k", "l", "m", "n", "o", "p", "q", "r", "s", "t", "u", "v", "w", "x", "y", "z">>

CharCode(c) == CHOOSE i \in 1..Len(CharOrder) : CharOrder[i] = c

RECURSIVE StrLess(_, _)
StrLess(a, b) ==
    IF b = <<>> THEN FALSE
    ELSE IF a = <<>> THEN TRUE
    ELSE IF Head(a) = Head(b) THEN StrLess(Tail(a), Tail(b))
    ELSE CharCode(Head(a)) < CharCode(Head(b))

NoWorktree == [path |-> <<>>, branch |-> <<>>]

\* the order ListWorktrees sorts into: the current working copy first, then by path
ListedBefore(a, b) ==
    IF a.path = RepoRoot THEN TRUE
    ELSE IF b.path = RepoRoot THEN FALSE
    ELSE StrLess(a.path, b.path)

\* Manager.FindWorktree: the first listed working copy the target matches
FindWorktree(w, target) ==
    LET first(hits) ==
            IF hits = {} THEN NoWorktree
            ELSE CHOOSE wt \in hits : \A other \in hits \ {wt} : ListedBefore(wt, other)
    IN  first({wt \in w.worktrees :
                  \/ target = wt.branch
                  \/ target = wt.path
                  \/ (target \in w.dirs /\ target = wt.path)
                  \/ target = Base(wt.path)})

\* a WorktreeDirty that reports every working copy clean
WorktreeDirtyNever(w, path) == FALSE

\* Manager.WorktreeDirty: git status --porcelain in the working copy; a failure
\* of the command (the directory is gone) counts as clean
WorktreeDirty(w, path) == path \in w.dirs /\ path \in w.dirty

\* the `git status` call of WorktreeDirty, as a command of the operation
RanStatus(w, path) ==
    Ok(Ran(w, "status", <<path>>, IF path \in w.dirs THEN "" ELSE "io"))

\* a BranchCheckedOutAnywhere that finds no working copy on the branch
BranchCheckedOutNowhere(w, branch) == FALSE

\* Manager.BranchCheckedOutAnywhere
BranchCheckedOutAnywhere(w, branch) == \E wt \in w.worktrees : wt.branch = branch

\* Remove, lines 1948-1963: the optional branch deletion
RemoveDeleteBranch(w, wt, force, deleteBranch) ==
    IF deleteBranch /\ wt.branch # <<>>
    THEN IF BranchCheckedOutAnywhere(w, wt.branch)
         THEN {Warn(w, "branch still checked out in another worktree")}
         ELSE {GitBranchDelete(w, wt.branch, force, f) : f \in BranchDeleteFaults}
    ELSE {Ok(w)}

\* a Remove that does not kill the session again before its second attempt
RemoveRekillSkipped(w, session) == w

\* Remove, lines 1935-1937: the session is killed again if it is still there
RemoveRekill(w, session) ==
    IF session # <<>> /\ tmuxHasSession(w, session) THEN Ok(TmuxKillSession(w, session)) ELSE w

\* Remove, lines 1933-1942: prune, re-kill the session, second attempt
RemoveRetry(w, wt, session, force, deleteBranch) ==
    UNION {IF w2.ok
           THEN RemoveDeleteBranch(Warn(w2, "worktree removal required a retry after cleanup"),
                                   wt, force, deleteBranch)
           ELSE {w2}
           : w2 \in {runGitWorktreeRemove(RemoveRekill(Ok(GitWorktreePrune(w, fp)), session),
                                          wt.path, force, f2)
                     : fp \in PruneFaults, f2 \in RemoveFaults}}

\* Remove, lines 1921-1930: stop the session before the removal
RemoveKillSession(w, session) ==
    IF session # <<>> /\ tmuxHasSession(w, session)
    THEN LET warned(wk) ==
                 IF wk.ok THEN wk ELSE Warn(wk, "unable to stop tmux session before removal")
         IN  warned(TmuxKillSession(w, session))
    ELSE w

\* Remove, lines 1921-1965: everything after the dirty check
RemoveClean(w, wt, session, force, deleteBranch) ==
    UNION {IF w1.ok THEN RemoveDeleteBranch(w1, wt, force, deleteBranch)
           ELSE IF shouldRetryWorktreeRemove(w1.err)
           THEN RemoveRetry(w1, wt, session, force, deleteBranch)
           ELSE {w1}
           : w1 \in {runGitWorktreeRemove(RemoveKillSession(w, session), wt.path, force, f1)
                     : f1 \in RemoveFaults}}

\* Manager.Remove: the worlds it can end in
RemoveOp(w, target, force, deleteBranch) ==
    LET remove(wt) ==
            IF wt = NoWorktree THEN {Fail(w, "worktree not found")}
            ELSE IF ~force /\ WorktreeDirty(w, wt.path)
            THEN {Fail(RanStatus(w, wt.path), "worktree has uncommitted changes")}
            ELSE RemoveClean(IF force THEN w ELSE RanStatus(w, wt.path), wt,
                             IF hasTmux THEN tmuxWorktreeSessionName(RepoRoot, wt) ELSE <<>>,
                             force, deleteBranch)
    IN  remove(FindWorktree(w, target))

\* a handler returning its values with a nil error
Return(w, path, flag) == [Ok(w) EXCEPT !.path = path, !.flag = flag]

\* typeRe: ^(feat|fix|chore|docs|refactor|test)$
BranchTypes == {<<"f", "e", "a", "t">>,
                <<"f", "i", "x">>,
                <<"c", "h", "o", "r", "e">>,
                <<"d", "o", "c", "s">>,
                <<"r", "e", "f", "a", "c", "t", "o", "r">>,
                <<"t", "e", "s", "t">>}

\* Manager.MakeBranchName: [ok, err, branch]
MakeBranchName(branchType, name) ==
    LET make(slug) ==
            IF branchType \notin BranchTypes
            THEN [ok |-> FALSE, err |-> "invalid type", branch |-> <<>>]
            ELSE IF ~slug.ok
            THEN [ok |-> FALSE, err |-> "feature name resolves to empty slug", branch |-> <<>>]
            ELSE [ok |-> TRUE, err |-> "", branch |-> branchType \o <<"/">> \o slug.slug]
    IN  make(Slugify(name))

\* git symbolic-ref --quiet --short HEAD in the repository root
CurrentBranch(w) ==
    IF \E wt \in w.worktrees : wt.path = RepoRoot
    THEN (CHOOSE wt \in w.worktrees : wt.path = RepoRoot).branch
    ELSE <<>>

\* Manager.ResolveBaseBranch: [ok, base]
ResolveBaseBranch(w, requested) ==
    IF requested # <<>>
    THEN [ok |-> BranchExists(w, requested), base |-> requested]
    ELSE IF BranchExists(w, cfg.BaseBranch) THEN [ok |-> TRUE, base |-> cfg.BaseBranch]
    ELSE [ok |-> CurrentBranch(w) # <<>>, base |-> CurrentBranch(w)]

\* Manager.CopyUntrackedAndIgnored: `git status --porcelain=v2` in the repository
\* root lists the candidates, which are then copied file by file.  Copied
\* untracked files show up in the status of the new working copy.  Whether the
\* repository root holds such files is the environment's choice.
CopyUntrackedAndIgnored(w, targetRoot) ==
    LET copy(listed, copied) ==
            {Ran(w, "status-v2", <<RepoRoot>>, "io"), listed, copied, Fail(copied, "copy")}
    IN  copy(Ran(w, "status-v2", <<RepoRoot>>, ""),
             [Ran(w, "status-v2", <<RepoRoot>>, "") EXCEPT !.dirty = @ \cup {targetRoot}])

\* the branch NewWorktree works on: [ok, err, branch, isExisting]
NewWorktreeBranch(opts) ==
    LET pick(branch, made) ==
            IF branch # <<>>
            THEN [ok |-> TRUE, err |-> "", branch |-> branch,
                  isExisting |-> opts.FromBranch # <<>>]
            ELSE [ok |-> made.ok, err |-> made.err, branch |-> made.branch,
                  isExisting |-> opts.FromBranch # <<>>]
    IN  pick(IF opts.FromBranch # <<>> THEN opts.FromBranch ELSE TrimSpace(opts.Branch),
             MakeBranchName(opts.Type, opts.Name))

\* a NewWorktree that launches the session although the copy failed
NewWorktreeFinishLaunching(created, branch, worktreePath, launch) ==
    LET finish(c) ==
            IF launch /\ (c.ok \/ c.err = "copy")
            THEN [LaunchOrFocus(c, RepoRoot, branch, worktreePath, TRUE)
                      EXCEPT !.ok = c.ok, !.err = c.err]
            ELSE c
    IN  {finish(c) : c \in UNION {IF d.ok THEN CopyUntrackedAndIgnored(d, worktreePath)
                                  ELSE {d} : d \in created}}

\* NewWorktree, lines 1276-1290: the copy, the optional launch, the return
NewWorktreeFinish(created, branch, worktreePath, launch) ==
    LET finish(c) ==
            IF ~c.ok THEN c
            ELSE IF launch
            THEN Then(LaunchOrFocus(c, RepoRoot, branch, worktreePath, TRUE),
                      LAMBDA l : [Return(l, worktreePath, FALSE) EXCEPT !.branch = branch])
            ELSE [Return(c, worktreePath, FALSE) EXCEPT !.branch = branch]
    IN  {finish(c) : c \in UNION {IF d.ok THEN CopyUntrackedAndIgnored(d, worktreePath)
                                  ELSE {d} : d \in created}}

\* Manager.NewWorktree: the worlds it can end in
NewWorktreeOp(w, opts) ==
    LET create(nb, base) ==
            IF ~nb.ok THEN {Fail(w, nb.err)}
            ELSE NewWorktreeFinish(
                     IF nb.isExisting
                     THEN CreateWorktreeFromExisting(w, nb.branch,
                                                     WorktreePathFor(RepoRoot, nb.branch))
                     ELSE IF ~base.ok THEN {Fail(w, "base branch not found")}
                     ELSE CreateWorktreeWithBranch(w, nb.branch,
                                                   WorktreePathFor(RepoRoot, nb.branch),
                                                   base.base),
                     nb.branch, WorktreePathFor(RepoRoot, nb.branch), opts.Launch)
    IN  create(NewWorktreeBranch(opts), ResolveBaseBranch(w, opts.BaseBranch))

\* Manager.Detach
DetachOp(w, target) ==
    LET detach(wt, session) ==
            IF wt = NoWorktree THEN Fail(w, "worktree not found")
            ELSE IF ~hasTmux THEN Fail(w, "tmux is required")
            ELSE IF ~tmuxHasSession(w, session) THEN Return(w, wt.path, FALSE)
            ELSE Then(TmuxKillSession(w, session), LAMBDA k : Return(k, wt.path, TRUE))
    IN  detach(FindWorktree(w, target),
               tmuxWorktreeSessionName(RepoRoot, FindWorktree(w, target)))

\* a StartAgent that always reports the agent as not running before
FlaggedNever(w, flag) == w

\* what StartAgent returns beside the error
Flagged(w, flag) == [w EXCEPT !.flag = flag]

\* Manager.StartAgent
StartAgentOp(w, target, attach) ==
    LET start(wt, branch, session, agentWindow, alreadyRunning) ==
            IF wt = NoWorktree THEN Fail(w, "worktree not found")
            ELSE IF ~hasTmux THEN Fail(w, "tmux is required")
            ELSE Then(tmuxEnsureWorktreeWindow(w, RepoRoot, branch, wt.path),
                      LAMBDA w1 :
                          Flagged(Then(tmuxEnsureWindow(w1, session, agentWindow, agentCommand),
                                       LAMBDA w2 :
                                           IF attach
                                           THEN Then(tmuxFocusWindow(w2, session, agentWindow,
                                                                     ~cfg.insideTmux),
                                                     LAMBDA w3 : Return(w3, wt.path, FALSE))
                                           ELSE Return(w2, wt.path, FALSE)),
                                  alreadyRunning))
        named(wt, branch) ==
            start(wt, branch, tmuxWorktreeSessionNameFrom(RepoRoot, branch, wt.path),
                  tmuxAgentWindowName(branch),
                  /\ tmuxHasSession(w, tmuxWorktreeSessionNameFrom(RepoRoot, branch, wt.path))
                  /\ tmuxWindowExists(w, tmuxWorktreeSessionNameFrom(RepoRoot, branch, wt.path),
                                      tmuxAgentWindowName(branch)))
    IN  named(FindWorktree(w, target), worktreeBranchOrName(FindWorktree(w, target)))

\* Manager.StopAgent
StopAgentOp(w, target) ==
    LET stop(wt, session, agentWindow) ==
            IF wt = NoWorktree THEN Fail(w, "worktree not found")
            ELSE IF ~hasTmux THEN Fail(w, "tmux is required")
            ELSE IF ~tmuxHasSession(w, session) \/ ~tmuxWindowExists(w, session, agentWindow)
            THEN Return(w, wt.path, FALSE)
            ELSE Then(TmuxKillWindow(w, session, agentWindow),
                      LAMBDA k : Return(k, wt.path, TRUE))
    IN  stop(FindWorktree(w, target),
             tmuxWorktreeSessionName(RepoRoot, FindWorktree(w, target)),
             tmuxAgentWindowName(worktreeBranchOrName(FindWorktree(w, target))))

\* Manager.Launch
LaunchOp(w, target, noAttach) ==
    LET launch(wt, branch, attach) ==
            IF wt = NoWorktree THEN Fail(w, "worktree not found")
            ELSE Then(tmuxEnsureWorktreeWindow(w, RepoRoot, branch, wt.path),
                      LAMBDA w1 :
                          IF attach
                          THEN Then(tmuxFocusWindow(
                                        w1, tmuxWorktreeSessionNameFrom(RepoRoot, branch, wt.path),
                                        w1.win, TRUE),
                                    LAMBDA w2 : Return(w2, wt.path, FALSE))
                          ELSE Return(w1, wt.path, FALSE))
    IN  launch(FindWorktree(w, target), worktreeBranchOrName(FindWorktree(w, target)),
               ~noAttach /\ ~cfg.insideTmux)

\* Manager.Go
GoOp(w, target, launch, attach) ==
    LET go(wt, branch, attachOutside) ==
            IF wt = NoWorktree THEN Fail(w, "worktree not found")
            ELSE IF launch /\ hasTmux
            THEN Then(LaunchOrFocus(w, RepoRoot, branch, wt.path, attachOutside),
                      LAMBDA w1 : Return(w1, wt.path, FALSE))
            ELSE Return(w, wt.path, FALSE)
    IN  go(FindWorktree(w, target), worktreeBranchOrName(FindWorktree(w, target)),
           IF ~cfg.insideTmux THEN attach ELSE FALSE)

(* ------------------------------------------------------------------ *)
(* The process: configurations, inputs, operations as actions         *)
(* ------------------------------------------------------------------ *)

StrTmux == <<"t", "m", "u", "x">>
StrSprout == <<"s", "p", "r", "o", "u", "t">>
BranchFixSlashX == <<"f", "i", "x", "/", "x">>
BranchFixDashX == <<"f", "i", "x", "-", "x">>
StrFix == <<"f", "i", "x">>
StrBug == <<"b", "u", "g">>
StrDev == <<"d", "e", "v">>

EmptyMap == [k \in {} |-> <<>>]

\* DefaultConfig (config.go) with the session tools given
BaseConfig(tools, installed, inside) ==
    [SessionPrefix |-> StrSprout, BaseBranch |-> StrMain, AgentCommand |-> StrCodex,
     SessionTools |-> tools, Windows |-> <<>>, SessionLayouts |-> EmptyMap,
     installed |-> installed, insideTmux |-> inside, remotes |-> {BranchFixDashX}]

\* the configurations a run starts from: the default tools, three tools inside
\* tmux, a machine without tmux, two structured windows beside a legacy layout, and
\* a legacy layout; the tool list is set in all of them
Configs ==
    {BaseConfig(<<StrAgent>>, {StrTmux, StrCodex}, FALSE),
     BaseConfig(<<StrAgent, StrLazygit, StrNvim>>, {StrTmux, StrCodex, StrNvim}, TRUE),
     BaseConfig(<<>>, {StrCodex}, FALSE),
     [BaseConfig(<<StrAgent>>, {StrTmux, StrCodex}, FALSE) EXCEPT
         !.Windows = <<[Name |-> StrDev, Layout |-> "",
                        Panes |-> <<[Run |-> StrNvimCmd], [Run |-> <<>>]>>],
                       [Name |-> StrFix, Layout |-> "", Panes |-> <<[Run |-> StrBash]>>]>>,
         !.SessionLayouts = (RepoName(RepoRoot) :>
             [Windows |-> <<[Name |-> StrBug, Panes |-> <<[Command |-> StrBash]>>]>>])],
     [BaseConfig(<<StrAgent>>, {StrTmux, StrCodex}, FALSE) EXCEPT
         !.SessionLayouts = (RepoName(RepoRoot) :>
             [Windows |-> <<[Name |-> StrDev,
                             Panes |-> <<[Command |-> StrNvimCmd],
                                         [Command |-> StrBash]>>]>>])]}

\* the targets the operations are called with
Targets == {BranchFixSlashX, BranchFixDashX}

NewOptions(branch, from, type, name, base, launch) ==
    [Branch |-> branch, FromBranch |-> from, Type |-> type, Name |-> name,
     BaseBranch |-> base, Launch |-> launch]

\* the options NewWorktree is called with
NewOptionsSet ==
    {NewOptions(<<>>, <<>>, StrFix, <<"X">>, <<>>, l) : l \in BOOLEAN}
    \cup {NewOptions(<<>>, BranchFixDashX, <<>>, <<>>, <<>>, l) : l \in BOOLEAN}
    \cup {NewOptions(<<" ">> \o BranchFixDashX, <<>>, <<>>, <<>>, <<>>, FALSE),
          NewOptions(<<>>, <<>>, StrBug, <<"X">>, <<>>, FALSE),
          NewOptions(<<>>, <<>>, StrFix, <<"_">>, <<>>, FALSE),
          NewOptions(<<>>, <<>>, StrFix, <<"X">>, StrDev, FALSE)}

\* how many of the first tmux commands of an operation the environment may fail
MaxTmuxFault == 2

\* the environment fails no tmux command of an operation, one of the first, or
\* all of the first (the tmux server is gone)
FaultPlans == {{}, 1..MaxTmuxFault} \cup {{i} : i \in 1..MaxTmuxFault}

\* the most panes a window is let grow to
MaxPanes == 3

\* the most commands typed into one pane
MaxKeys == 2

PanesBounded(w) ==
    \A s \in DOMAIN w.tmux : \A i \in 1..Len(w.tmux[s]) :
        /\ Len(w.tmux[s][i].panes) <= MaxPanes
        /\ \A j \in 1..Len(w.tmux[s][i].panes) : Len(w.tmux[s][i].panes[j].keys) <= MaxKeys

NoOptions ==
    [target |-> <<>>, force |-> FALSE, del |-> FALSE, from |-> <<>>, launch |-> FALSE,
     attach |-> FALSE]

\* what is recorded of an operation: its name, its options and what it returned
Last(op, opts, session, w) ==
    [op |-> op, target |-> opts.target, force |-> opts.force, del |-> opts.del,
     from |-> opts.from, launch |-> opts.launch, attach |-> opts.attach,
     session |-> session, ok |-> w.ok, err |-> w.err, path |-> w.path, branch |-> w.branch,
     flag |-> w.flag, warnings |-> w.warnings]

\* the world an operation ends in becomes the state
Apply(w, lst) ==
    /\ tmux' = w.tmux
    /\ branches' = w.branches
    /\ worktrees' = w.worktrees
    /\ dirs' = w.dirs
    /\ dirty' = w.dirty
    /\ log' = w.log
    /\ last' = lst
    /\ UNCHANGED <<cfg, pane, ui, rt>>

SessionOf(w, target) ==
    IF FindWorktree(w, target) = NoWorktree THEN <<>>
    ELSE tmuxWorktreeSessionName(RepoRoot, FindWorktree(w, target))

\* the fault plans that make a difference to an operation that runs at most
\* n tmux commands, to kill the session or a window of the target: none when
\* there is no such session
KillPlans(target, n) ==
    IF SessionOf(World({}), target) \in DOMAIN tmux
    THEN {plan \cap (1..n) : plan \in FaultPlans}
    ELSE {{}}

\* the fault plans that make a difference to an operation that builds the session
\* of the target: none when the target is no working copy
BuildPlans(target) ==
    IF FindWorktree(World({}), target) = NoWorktree THEN {{}} ELSE FaultPlans

\* no operation is running and the result of the last one has been consumed
Idle == Last("", NoOptions, <<>>, World({}))

\* no agent pane is watched
NoPane ==
    [rows |-> <<>>, activity |-> 0, agentState |-> "no", typed |-> FALSE,
     marker |-> <<>>, noise |-> <<>>, outputs |-> 0]

\* newTUIState: the maps agentPrompt and panePromptActivity are empty
NewUi == [agentPrompt |-> "none", panePromptActivity |-> -1, info |-> "", tick |-> ""]

\* the process before the dashboard runs: the clock at 0
NoRuntime == [now |-> 0]

Init ==
    /\ cfg \in Configs
    /\ branches = {StrMain}
    /\ worktrees = {[path |-> RepoRoot, branch |-> StrMain]}
    /\ dirs = Ancestors(RepoRoot)
    /\ dirty = {}
    /\ tmux = EmptyMap
    /\ log = <<>>
    /\ last = Idle
    /\ pane = NoPane
    /\ ui = NewUi
    /\ rt = NoRuntime

NewWorktree ==
    /\ last.op = ""
    /\ \E opts \in NewOptionsSet :
      \E faults \in (IF opts.Launch THEN FaultPlans ELSE {{}}) :
        \E w \in NewWorktreeOp(World(faults), opts) :
            /\ PanesBounded(w)
            /\ Apply(w, Last("NewWorktree",
                             [NoOptions EXCEPT !.target = NewWorktreeBranch(opts).branch,
                                               !.from = opts.FromBranch,
                                               !.launch = opts.Launch],
                             <<>>, w))

Remove ==
    /\ last.op = ""
    /\ \E target \in Targets, force, del \in BOOLEAN :
      \E faults \in KillPlans(target, 2) :
        \E w \in RemoveOp(World(faults), target, force, del) :
            Apply(w, Last("Remove",
                          [NoOptions EXCEPT !.target = target, !.force = force, !.del = del],
                          SessionOf(World(faults), target), w))

Launch ==
    /\ last.op = ""
    /\ \E target \in Targets, noAttach \in BOOLEAN :
      \E faults \in BuildPlans(target) :
        \E w \in {LaunchOp(World(faults), target, noAttach)} :
            /\ PanesBounded(w)
            /\ Apply(w, Last("Launch",
                             [NoOptions EXCEPT !.target = target, !.attach = ~noAttach],
                             SessionOf(World(faults), target), w))

Go ==
    /\ last.op = ""
    /\ \E target \in Targets, launch, attach \in BOOLEAN :
      \E faults \in (IF launch THEN BuildPlans(target) ELSE {{}}) :
        \E w \in {GoOp(World(faults), target, launch, attach)} :
            /\ PanesBounded(w)
            /\ Apply(w, Last("Go",
                             [NoOptions EXCEPT !.target = target, !.launch = launch,
                                               !.attach = attach],
                             SessionOf(World(faults), target), w))

Detach ==
    /\ last.op = ""
    /\ \E target \in Targets :
      \E faults \in KillPlans(target, 1) :
        \E w \in {DetachOp(World(faults), target)} :
            Apply(w, Last("Detach", [NoOptions EXCEPT !.target = target],
                          SessionOf(World(faults), target), w))

StartAgent ==
    /\ last.op = ""
    /\ \E target \in Targets, attach \in BOOLEAN :
      \E faults \in BuildPlans(target) :
        \E w \in {StartAgentOp(World(faults), target, attach)} :
            /\ PanesBounded(w)
            /\ Apply(w, Last("StartAgent",
                             [NoOptions EXCEPT !.target = target, !.attach = attach],
                             SessionOf(World(faults), target), w))

StopAgent ==
    /\ last.op = ""
    /\ \E target \in Targets :
      \E faults \in KillPlans(target, 1) :
        \E w \in {StopAgentOp(World(faults), target)} :
            Apply(w, Last("StopAgent", [NoOptions EXCEPT !.target = target],
                          SessionOf(World(faults), target), w))

\* the caller takes what the operation returned; of the operation nothing
\* remains but its effects
Finish ==
    /\ last.op # ""
    /\ last' = Idle
    /\ log' = <<>>
    /\ UNCHANGED <<cfg, branches, worktrees, dirs, dirty, tmux, pane, ui, rt>>

\* the user edits a file in a linked working copy
Touch ==
    /\ last.op = ""
    /\ \E wt \in worktrees :
        /\ wt.path # RepoRoot
        /\ wt.path \in dirs
        /\ wt.path \notin dirty
        /\ dirty' = dirty \cup {wt.path}
        /\ UNCHANGED <<cfg, branches, worktrees, dirs, tmux, log, last, pane, ui, rt>>

\* the user deletes the directory of a linked working copy behind git's back
RmDir ==
    /\ last.op = ""
    /\ \E wt \in worktrees :
        /\ wt.path # RepoRoot
        /\ wt.path \in dirs
        /\ dirs' = dirs \ {wt.path}
        /\ dirty' = dirty \ {wt.path}
        /\ UNCHANGED <<cfg, branches, worktrees, tmux, log, last, pane, ui, rt>>

\* the user creates a directory where NewWorktree would put a working copy
MkDir ==
    /\ last.op = ""
    /\ \E path \in {WorktreePathFor(RepoRoot, branch) : branch \in Targets} :
        /\ path \notin dirs
        /\ ~Registered(World({}), path)
        /\ dirs' = dirs \cup Ancestors(path)
        /\ UNCHANGED <<cfg, branches, worktrees, dirty, tmux, log, last, pane, ui, rt>>

Next ==
    \/ NewWorktree
    \/ Remove
    \/ Launch
    \/ Go
    \/ Detach
    \/ StartAgent
    \/ StopAgent
    \/ Finish
    \/ Touch
    \/ RmDir
    \/ MkDir

Spec == Init /\ [][Next]_vars

(* ------------------------------------------------------------------ *)
(* Shared: a branch checked out in two working copies                  *)
(* ------------------------------------------------------------------ *)

\* where the user adds the second working copy of a branch
SecondPath == WorktreePathFor(RepoRoot, <<"z">>)

\* the user runs `git worktree add --force <path> <branch>` for a branch that
\* a working copy has checked out already
ForceAdd ==
    /\ last.op = ""
    /\ SecondPath \notin dirs
    /\ \A wt \in worktrees : wt.path # SecondPath
    /\ \E branch \in Targets \cap branches :
           /\ \E wt \in worktrees : wt.branch = branch
           /\ worktrees' = worktrees \cup {[path |-> SecondPath, branch |-> branch]}
    /\ dirs' = dirs \cup {WorktreeRootDir(RepoRoot), SecondPath}
    /\ UNCHANGED <<cfg, branches, dirty, tmux, log, last, pane, ui, rt>>

\* the default configuration
SharedInit == Init /\ cfg = BaseConfig(<<StrAgent>>, {StrTmux, StrCodex}, FALSE)

SharedNext == Next \/ ForceAdd

SharedSpec == SharedInit /\ [][SharedNext]_vars

(* ------------------------------------------------------------------ *)
(* Names: the naming functions applied to configurations and options   *)
(* ------------------------------------------------------------------ *)

\* the longest tool list of a configuration
MaxTools == 3

\* an executable name one character longer than a window name may be
LongName == [i \in 1..(WindowNameCap + 1) |-> "a"]

\* the entries of session_tools: the known tools in several spellings, two
\* commands of one executable, and a command with a long executable name
ToolEntries ==
    {<<"A", "g", "e", "n", "t">>, StrLazygit, StrNeovim,
     StrBash \o <<" ", "x">>, StrBash \o <<" ", "y">>, LongName \o <<" ", "x">>}

\* the configurations of the tool-list mode: every tool list up to MaxTools
\* entries, with and without lazygit and nvim on PATH
ToolConfigs ==
    {BaseConfig(tools, {StrTmux, StrCodex} \cup bins, FALSE) :
        tools \in UNION {[1..n -> ToolEntries] : n \in 0..MaxTools},
        bins \in {{}, {StrLazygit}, {StrLazygit, StrNvim}}}

\* the branches windows are named after
NameBranches == {BranchFixDashX, LongName}

\* the options whose branch NewWorktree resolves: every combination of an
\* explicit branch, an existing branch, a type and a name
BranchOptions ==
    {NewOptions(branch, from, type, name, <<>>, FALSE) :
        branch \in {<<>>, <<" ">> \o BranchFixDashX},
        from \in {<<>>, BranchFixSlashX},
        type \in {<<>>, StrBug},
        name \in {<<>>, <<"X">>, <<"_">>}}

NamesInit ==
    /\ cfg \in ToolConfigs
    /\ branches = {StrMain}
    /\ worktrees = {[path |-> RepoRoot, branch |-> StrMain]}
    /\ dirs = {<<"/">>, RepoRoot}
    /\ dirty = {}
    /\ tmux = EmptyMap
    /\ log = <<>>
    /\ last = Idle
    /\ pane = NoPane
    /\ ui = NewUi
    /\ rt = NoRuntime

\* the names tmuxConfiguredWindows starts from, one per tool it keeps
RECURSIVE KeptBases(_, _)
KeptBases(tools, branch) ==
    IF tools = <<>> THEN <<>>
    ELSE LET keep(spec) == IF spec.Command = <<>> THEN <<>> ELSE <<spec.Base>>
         IN  keep(ToolWindowSpec(Head(tools), branch)) \o KeptBases(Tail(tools), branch)

\* tmuxConfiguredWindows is applied to a branch
ConfigureWindows ==
    /\ last.op = ""
    /\ \E branch \in NameBranches :
           last' = [op |-> "tmuxConfiguredWindows", branch |-> branch,
                    bases |-> KeptBases(normalizeSessionTools(cfg.SessionTools), branch),
                    configured |-> tmuxConfiguredWindows(branch),
                    windows |-> ToolWindows(branch)]
    /\ UNCHANGED <<cfg, branches, worktrees, dirs, dirty, tmux, log, pane, ui, rt>>

\* tmuxEnsureWorktreeWindow builds the session of a branch
EnsureWorktreeWindow ==
    /\ last.op = ""
    /\ \E branch \in NameBranches, faults \in FaultPlans :
           Apply(tmuxEnsureWorktreeWindow(World(faults), RepoRoot, branch,
                                          WorktreePathFor(RepoRoot, branch)),
                 [op |-> "tmuxEnsureWorktreeWindow", branch |-> branch,
                  session |-> tmuxWorktreeSessionNameFrom(RepoRoot, branch,
                                                          WorktreePathFor(RepoRoot, branch))])

\* NewWorktree resolves the branch of its options
ResolveBranch ==
    /\ last.op = ""
    /\ \E opts \in BranchOptions :
           last' = [op |-> "NewWorktreeBranch", opts |-> opts, out |-> NewWorktreeBranch(opts)]
    /\ UNCHANGED <<cfg, branches, worktrees, dirs, dirty, tmux, log, pane, ui, rt>>

NamesNext ==
    \/ ConfigureWindows
    \/ EnsureWorktreeWindow
    \/ ResolveBranch

NamesSpec == NamesInit /\ [][NamesNext]_vars

(* ------------------------------------------------------------------ *)
(* Dashboard: the ready-or-busy state of the agent pane (ui.go)        *)
(* ------------------------------------------------------------------ *)

\* Characters outside ASCII are written by their code points: U+203A, U+276F
\* and U+279C are the prompt arrows, U+2588 is the block the capture draws at
\* the cursor, ESC is the byte 0x1b, BEL the byte 0x07 and BSL the backslash.

\* the alternatives of agentPromptOnlyRe and agentPromptInputRe
PromptTokens ==
    {<<">">>, <<">", ">">>, <<">", ">", ">">>, <<"$">>, <<"#">>, <<":">>,
     <<"U+203A">>, <<"U+276F">>, <<"U+279C">>}

HasPrefix(s, prefix) == Len(s) >= Len(prefix) /\ SubSeq(s, 1, Len(prefix)) = prefix

\* agentPromptOnlyRe.MatchString: ^(token)\s*$
agentPromptOnlyRe(line) ==
    \E token \in PromptTokens :
        /\ HasPrefix(line, token)
        /\ \A i \in (Len(token) + 1)..Len(line) : line[i] = " "

\* agentPromptInputRe.MatchString: ^(token)\s+.*$
agentPromptInputRe(line) ==
    \E token \in PromptTokens :
        /\ HasPrefix(line, token)
        /\ Len(line) > Len(token)
        /\ line[Len(token) + 1] = " "

PhraseForShortcuts ==
    <<"f", "o", "r", " ", "s", "h", "o", "r", "t", "c", "u", "t", "s">>

PhraseContextLeft ==
    <<"c", "o", "n", "t", "e", "x", "t", " ", "l", "e", "f", "t">>

PhraseAwaitingYourInput ==
    <<"a", "w", "a", "i", "t", "i", "n", "g", " ", "y", "o", "u", "r", " ", "i", "n", "p", "u", "t">>

PhraseWaitingForYourInput ==
    <<"w", "a", "i", "t", "i", "n", "g", " ", "f", "o", "r", " ", "y", "o", "u", "r", " ", "i", "n", "p", "u", "t">>

PhraseReadyForYourNextInstruction ==
    <<"r", "e", "a", "d", "y", " ", "f", "o", "r", " ", "y", "o", "u", "r", " ", "n", "e", "x", "t", " ", "i", "n", "s", "t", "r", "u", "c", "t", "i", "o", "n">>

PhraseWhatWouldYouLikeToDoNext ==
    <<"w", "h", "a", "t", " ", "w", "o", "u", "l", "d", " ", "y", "o", "u", " ", "l", "i", "k", "e", " ", "t", "o", " ", "d", "o", " ", "n", "e", "x", "t">>

PhraseEnterYourPrompt ==
    <<"e", "n", "t", "e", "r", " ", "y", "o", "u", "r", " ", "p", "r", "o", "m", "p", "t">>

\* the bytes 0x40 to 0x7e that end a CSI sequence, of the characters in use
CsiFinal ==
    Letters \cup {"A", "C", "F", "R", "U", "X", "@", "[", "BSL", "]", "^", "_", "{", "|",
                  "}", "~"}

\* stripANSI, the case '[': the index the inner loop stops at
CsiEnd(s, open) ==
    IF \E k \in (open + 1)..Len(s) : s[k] \in CsiFinal
    THEN CHOOSE k \in (open + 1)..Len(s) :
             s[k] \in CsiFinal /\ \A j \in (open + 1)..(k - 1) : s[j] \notin CsiFinal
    ELSE Len(s)

\* stripANSI, the case ']': the index the inner loop stops at
OscEnd(s, open) ==
    LET ends(k) == s[k] = "BEL" \/ (s[k] = "ESC" /\ k < Len(s) /\ s[k + 1] = "BSL")
        stop(k) == IF s[k] = "BEL" THEN k ELSE k + 1
    IN  IF \E k \in (open + 1)..Len(s) : ends(k)
        THEN stop(CHOOSE k \in (open + 1)..Len(s) :
                      ends(k) /\ \A j \in (open + 1)..(k - 1) : ~ends(j))
        ELSE Len(s)

RECURSIVE StripFrom(_, _)
\* stripANSI from index i on
StripFrom(s, i) ==
    IF i > Len(s) THEN <<>>
    ELSE IF s[i] # "ESC" THEN <<s[i]>> \o StripFrom(s, i + 1)
    ELSE IF i + 1 > Len(s) THEN <<>>
    ELSE IF s[i + 1] = "[" THEN StripFrom(s, CsiEnd(s, i + 1) + 1)
    ELSE IF s[i + 1] = "]" THEN StripFrom(s, OscEnd(s, i + 1) + 1)
    ELSE StripFrom(s, i + 2)

\* stripANSI, on one row of the capture
stripANSI(input) ==
    IF \A i \in 1..Len(input) : input[i] # "ESC" THEN input ELSE StripFrom(input, 1)

\* how many non-empty lines agentReadyForInstruction looks at
ScanLimit == 12

\* agentReadyForInstruction, the tests on one trimmed non-empty line
LineReady(line) ==
    LET phrase(lower) ==
            \/ Contains(lower, PhraseForShortcuts)
            \/ Contains(lower, PhraseContextLeft)
            \/ agentPromptOnlyRe(line)
            \/ (Contains(line, <<"U+2588">>) /\ agentPromptInputRe(line))
            \/ Contains(lower, PhraseAwaitingYourInput)
            \/ Contains(lower, PhraseWaitingForYourInput)
            \/ Contains(lower, PhraseReadyForYourNextInstruction)
            \/ Contains(lower, PhraseWhatWouldYouLikeToDoNext)
            \/ Contains(lower, PhraseEnterYourPrompt)
    IN  phrase(ToLower(line))

\* a scan that stops at the first non-empty line from the bottom
ScanLastLineOnly(lines, i, seen) ==
    \E k \in 1..Len(lines) :
        /\ TrimSpace(lines[k]) # <<>>
        /\ \A j \in (k + 1)..Len(lines) : TrimSpace(lines[j]) = <<>>
        /\ LineReady(TrimSpace(lines[k]))

RECURSIVE Scan(_, _, _)
\* agentReadyForInstruction, the loop from line i upwards with seen lines counted
Scan(lines, i, seen) ==
    LET test(line) ==
            IF line = <<>> THEN Scan(lines, i - 1, seen)
            ELSE IF LineReady(line) THEN TRUE
            ELSE Scan(lines, i - 1, seen + 1)
    IN  IF i < 1 \/ seen >= ScanLimit THEN FALSE ELSE test(TrimSpace(lines[i]))

\* agentReadyForInstruction, on the rows of a capture (no row holds a line
\* break, so splitting the joined rows gives the rows back)
agentReadyForInstruction(output) ==
    Scan([i \in 1..Len(output) |-> stripANSI(output[i])], Len(output), 0)

\* tuiState.setAgentPromptState
setAgentPromptState(u, item, next) ==
    IF item.agentState # "yes" THEN [u EXCEPT !.agentPrompt = "none"]
    ELSE IF u.agentPrompt = next THEN u
    ELSE [u EXCEPT !.agentPrompt = next,
                   !.info = IF next = "ready" THEN "agent ready for input" ELSE @]

\* tuiState.captureAgentPromptState: the states it can end in.  The activity
\* of the pane is read and compared with the one recorded; capturing the
\* pane is a tmux command that can fail.
captureAgentPromptState(u, item) ==
    IF item.agentState # "yes" THEN {[u EXCEPT !.tick = "skipped"]}
    ELSE IF u.panePromptActivity = item.activity THEN {[u EXCEPT !.tick = "skipped"]}
    ELSE LET classify(v) ==
                 {[v EXCEPT !.tick = "failed"],
                  [setAgentPromptState(v, item,
                                       IF agentReadyForInstruction(item.rows)
                                       THEN "ready" ELSE "busy")
                      EXCEPT !.tick = "read"]}
         IN  classify([u EXCEPT !.panePromptActivity = item.activity])

Hello == <<"h", "e", "l", "l", "o">>

\* rows that make the agent ready: every prompt token, a coloured prompt, a
\* prompt with text and the cursor block, and every phrase
ReadyMarkers ==
    PromptTokens
    \cup {<<" ", ">", " ">>,
          <<"ESC", "[", "3", "2", "m", "$", "ESC", "[", "0", "m">>,
          <<">", " ">> \o Hello \o <<"U+2588">>,
          <<"?", " ">> \o PhraseForShortcuts,
          <<"8", "0", "%", " ">> \o PhraseContextLeft,
          <<"A">> \o Tail(PhraseAwaitingYourInput),
          PhraseWaitingForYourInput \o <<".">>,
          <<"R">> \o Tail(PhraseReadyForYourNextInstruction) \o <<".">>,
          PhraseWhatWouldYouLikeToDoNext \o <<"?">>,
          PhraseEnterYourPrompt \o <<":">>}

\* rows of output that is no prompt: text, a prompt with text and no cursor
\* block, and an empty row
NoiseRows ==
    {<<"b", "u", "i", "l", "d", "i", "n", "g">>, <<"$", " ">> \o Hello, <<>>}

\* the agents watched, each with the marker and the output it prints: every
\* marker with text as output, and one marker with every kind of output
Agents ==
    {<<marker, <<"b", "u", "i", "l", "d", "i", "n", "g">>>> : marker \in ReadyMarkers}
    \cup {<<<<">">>, noise>> : noise \in NoiseRows}

\* how many times the agent writes to the pane
MaxOutputs == 2

PromptInit ==
    /\ cfg = BaseConfig(<<StrAgent>>, {StrTmux, StrCodex}, FALSE)
    /\ branches = {StrMain}
    /\ worktrees = {[path |-> RepoRoot, branch |-> StrMain]}
    /\ dirs = Ancestors(RepoRoot)
    /\ dirty = {}
    /\ tmux = EmptyMap
    /\ log = <<>>
    /\ last = Idle
    /\ \E agent \in Agents :
           pane = [NoPane EXCEPT !.agentState = "yes", !.marker = agent[1],
                                 !.noise = agent[2]]
    /\ ui = NewUi
    /\ rt = NoRuntime

\* the pane has changed: the last tick no longer speaks about its rows
Changed == [ui EXCEPT !.tick = ""]

\* the dashboard ticks several times a second: it has looked at the pane
\* since the pane last changed
Ticked == ui.tick # ""

\* the agent prints its ready marker
AgentReady ==
    /\ Ticked
    /\ pane.outputs < MaxOutputs
    /\ pane' = [pane EXCEPT !.rows = Append(@, pane.marker), !.activity = @ + 1,
                            !.outputs = @ + 1, !.typed = FALSE]
    /\ ui' = Changed
    /\ UNCHANGED <<cfg, branches, worktrees, dirs, dirty, tmux, log, last, rt>>

\* the agent prints as many rows of output as a scan looks at, or one less
AgentScroll ==
    /\ Ticked
    /\ pane.outputs < MaxOutputs
    /\ \E n \in {ScanLimit - 1, ScanLimit} :
           pane' = [pane EXCEPT !.rows = @ \o [i \in 1..n |-> pane.noise],
                                !.activity = @ + 1, !.outputs = @ + 1]
    /\ ui' = Changed
    /\ UNCHANGED <<cfg, branches, worktrees, dirs, dirty, tmux, log, last, rt>>

\* Manager.SendAgentKeys: the keys are typed into the pane, which shows them
SendKeys ==
    /\ Ticked
    /\ ~pane.typed
    /\ pane' = [pane EXCEPT !.rows = Append(@, Hello), !.activity = @ + 1, !.typed = TRUE]
    /\ ui' = Changed
    /\ UNCHANGED <<cfg, branches, worktrees, dirs, dirty, tmux, log, last, rt>>

\* a tick of the dashboard: captureAgentPromptState on the selected item
Capture ==
    /\ ui' \in captureAgentPromptState(ui, pane)
    /\ UNCHANGED <<cfg, branches, worktrees, dirs, dirty, tmux, log, last, pane, rt>>

PromptNext ==
    \/ AgentReady
    \/ AgentScroll
    \/ SendKeys
    \/ Capture

PromptSpec == PromptInit /\ [][PromptNext]_vars

(* ------------------------------------------------------------------ *)
(* Dashboard: the diff caches of tuiState (ui.go)                     *)
(* ------------------------------------------------------------------ *)

\* time is counted in milliseconds
diffFilesCacheTTL == 900
diffPatchCacheTTL == 2000

\* the entries cachedDiffFiles and cachedFileDiff let their maps grow to
diffCacheCap == 128
patchCacheCap == 512

\* newTUI: no items, nothing selected, the agent tab, empty caches
NewDashboard ==
    [items |-> <<>>, selected |-> 0, detailTab |-> "agent", diffCache |-> EmptyMap,
     patchCache |-> EmptyMap, diffItems |-> <<>>, diffSel |-> 0, diffPath |-> "",
     detail |-> <<>>, lastDiff |-> <<>>, modal |-> "", footer |-> <<>>] @@ NewUi

\* m[key] = entry, for a Go map
Put(m, key, entry) == [k \in DOMAIN m \cup {key} |-> IF k = key THEN entry ELSE m[k]]

\* what git shows of a working copy at a time: the file list, or the patch of
\* a file, named by what was asked and when
Shown(what, now) == <<what, now>>

\* cachedDiffFiles that keeps every entry
cachedDiffFilesKeepingAll(u, now, path, fetched) ==
    IF path \in DOMAIN u.diffCache /\ now - u.diffCache[path].fetchedAt <= diffFilesCacheTTL
    THEN [u |-> u, ran |-> FALSE, ok |-> TRUE, files |-> u.diffCache[path].files]
    ELSE IF ~fetched.ok
    THEN [u |-> u, ran |-> TRUE, ok |-> FALSE, files |-> <<>>]
    ELSE [u |-> [u EXCEPT !.diffCache = Put(@, path, [files |-> fetched.files, fetchedAt |-> now])],
          ran |-> TRUE, ok |-> TRUE, files |-> fetched.files]

\* tuiState.cachedDiffFiles at the time now; fetched is what
\* Manager.WorktreeDiffFiles returns when it is called: [ok, files].
\* The result: the dashboard, whether git ran, and what is returned.
cachedDiffFiles(u, now, path, fetched) ==
    LET kept(c) == IF Cardinality(DOMAIN c) > diffCacheCap THEN Put(EmptyMap, path, c[path]) ELSE c
    IN  IF path \in DOMAIN u.diffCache /\ now - u.diffCache[path].fetchedAt <= diffFilesCacheTTL
        THEN [u |-> u, ran |-> FALSE, ok |-> TRUE, files |-> u.diffCache[path].files]
        ELSE IF ~fetched.ok
        THEN [u |-> u, ran |-> TRUE, ok |-> FALSE, files |-> <<>>]
        ELSE [u |-> [u EXCEPT !.diffCache =
                          kept(Put(@, path, [files |-> fetched.files, fetchedAt |-> now]))],
              ran |-> TRUE, ok |-> TRUE, files |-> fetched.files]

\* diffPatchCacheKey: path, file path, status and width joined by NUL
diffPatchCacheKey(path, file, width) == <<path, file.Path, file.Status, width>>

\* tuiState.cachedFileDiff at the time now; fetched is what
\* Manager.WorktreeDiffForFile returns when it is called: [ok, text]
cachedFileDiff(u, now, path, file, width, fetched) ==
    LET kept(c, key) == IF Cardinality(DOMAIN c) > patchCacheCap THEN Put(EmptyMap, key, c[key]) ELSE c
        lookup(key) ==
            IF key \in DOMAIN u.patchCache /\ now - u.patchCache[key].fetchedAt <= diffPatchCacheTTL
            THEN [u |-> u, ran |-> FALSE, ok |-> TRUE, text |-> u.patchCache[key].text]
            ELSE IF ~fetched.ok
            THEN [u |-> u, ran |-> TRUE, ok |-> FALSE, text |-> <<>>]
            ELSE [u |-> [u EXCEPT !.patchCache =
                              kept(Put(@, key, [text |-> fetched.text, fetchedAt |-> now]), key)],
                  ran |-> TRUE, ok |-> TRUE, text |-> fetched.text]
    IN  lookup(diffPatchCacheKey(path, file, width))

\* tuiState.clearDiffCaches
clearDiffCaches(u) ==
    [u EXCEPT !.diffCache = EmptyMap, !.patchCache = EmptyMap, !.lastDiff = <<>>]

(* ------------------------------------------------------------------ *)
(* Caches: lookups of a dashboard that has been running               *)
(* ------------------------------------------------------------------ *)

MaxAdvance == 2

\* the clock moves by a file-list TTL, or by what is left of a patch TTL then
ClockSteps == {diffFilesCacheTTL, diffPatchCacheTTL - diffFilesCacheTTL}

\* The working copies (and the changed files of working copy 1) that are looked
\* at: the one that was cached first, the one that fills the map and the one
\* that overflows it.  Working copies and files are numbered.
PathChoices == {1, diffCacheCap, diffCacheCap + 1}
FileChoices == {1, patchCacheCap, patchCacheCap + 1}

\* the terminal width the patches are rendered for
Width == 80

ChangedFile(file) == [Path |-> file, Status |-> "M"]

\* the file-list cache after the working copies 1..n were looked at, one patch
\* TTL after the other
FilledDiffCache(n) ==
    [path \in 1..n |-> [files |-> Shown(path, path * diffPatchCacheTTL),
                        fetchedAt |-> path * diffPatchCacheTTL]]

\* the patch cache after the files 1..n of working copy 1 were looked at
FilledPatchCache(n) ==
    [key \in {diffPatchCacheKey(1, ChangedFile(f), Width) : f \in 1..n} |->
         [text |-> Shown(key, key[2] * diffPatchCacheTTL), fetchedAt |-> key[2] * diffPatchCacheTTL]]

\* Either the repository has many clean working copies, of which 0 or all but
\* two were looked at, or it has one working copy with many changed files, of
\* which 0 or all but two were looked at.
CacheInit ==
    /\ cfg = BaseConfig(<<StrAgent>>, {StrTmux}, FALSE)
    /\ branches = {StrMain}
    /\ worktrees = {[path |-> RepoRoot, branch |-> StrMain]}
    /\ dirs = {<<"/">>, RepoRoot}
    /\ dirty = {}
    /\ tmux = EmptyMap
    /\ log = <<>>
    /\ last = Idle
    /\ pane = NoPane
    /\ \E many \in {"paths", "files"}, n \in {0, 1} :
           IF many = "paths"
           THEN /\ ui = [NewDashboard EXCEPT !.diffCache = FilledDiffCache(n * (diffCacheCap - 1))]
                /\ rt = [now |-> n * (diffCacheCap - 1) * diffPatchCacheTTL, advances |-> 0,
                         paths |-> 1..(diffCacheCap + 1), changed |-> {}]
           ELSE /\ ui = [NewDashboard EXCEPT !.patchCache = FilledPatchCache(n * (patchCacheCap - 1))]
                /\ rt = [now |-> n * (patchCacheCap - 1) * diffPatchCacheTTL, advances |-> 0,
                         paths |-> {1}, changed |-> 1..(patchCacheCap + 1)]

\* renderDiffDetail asks for the file list of a working copy
LookupDiffFiles ==
    /\ \E path \in rt.paths \cap PathChoices, ok \in BOOLEAN :
           LET done(r) ==
                   /\ ui' = r.u
                   /\ last' = [op |-> "cachedDiffFiles", key |-> path, now |-> rt.now,
                               before |-> Cardinality(DOMAIN ui.diffCache),
                               ran |-> r.ran, ok |-> r.ok, shown |-> r.files]
           IN  done(cachedDiffFiles(ui, rt.now, path, [ok |-> ok, files |-> Shown(path, rt.now)]))
    /\ UNCHANGED <<cfg, branches, worktrees, dirs, dirty, tmux, log, pane, rt>>

\* renderSelectedFileDiff asks for the patch of a changed file
LookupFileDiff ==
    /\ \E path \in rt.paths \cap PathChoices, f \in rt.changed \cap FileChoices, ok \in BOOLEAN :
           LET done(r, key) ==
                   /\ ui' = r.u
                   /\ last' = [op |-> "cachedFileDiff", key |-> key, now |-> rt.now,
                               before |-> Cardinality(DOMAIN ui.patchCache),
                               ran |-> r.ran, ok |-> r.ok, shown |-> r.text]
           IN  done(cachedFileDiff(ui, rt.now, path, ChangedFile(f), Width,
                                   [ok |-> ok, text |-> Shown(diffPatchCacheKey(path, ChangedFile(f), Width), rt.now)]),
                    diffPatchCacheKey(path, ChangedFile(f), Width))
    /\ UNCHANGED <<cfg, branches, worktrees, dirs, dirty, tmux, log, pane, rt>>

\* time passes
Advance ==
    /\ rt.advances < MaxAdvance
    /\ \E d \in ClockSteps : rt' = [rt EXCEPT !.now = @ + d, !.advances = @ + 1]
    /\ UNCHANGED <<cfg, branches, worktrees, dirs, dirty, tmux, log, last, pane, ui>>

CacheNext ==
    \/ LookupDiffFiles
    \/ LookupFileDiff
    \/ Advance

CacheSpec == CacheInit /\ [][CacheNext]_vars

(* ------------------------------------------------------------------ *)
(* Dashboard: the UI thread, its event queue and the goroutines       *)
(* ------------------------------------------------------------------ *)

\* The dashboard of a repository whose working copies run no agent and whose
\* configuration has auto_launch and auto_start_agent off.  Working copies
\* are named by their paths: the repository root, and the one the create
\* modal adds.
\* ui is the tuiState; rt holds the clock, the repository as git lists it,
\* the UI event queue and the goroutines; last is the step that was taken.

\* callbacks that may wait on the UI event queue
MaxQueue == 1

RootCopy == "repo"
NewCopy == "repo-feature"

\* Manager.ListWorktrees of a repository: its working copies in order
Listing(repo) == IF NewCopy \in repo THEN <<RootCopy, NewCopy>> ELSE <<RootCopy>>

\* Manager.WorktreeDiffFiles: the root has one changed file, a new copy is clean
Changes(path) == IF path = RootCopy THEN <<ChangedFile(1)>> ELSE <<>>

\* what git answers during one handler: the file list and the patch can be
\* read, or neither
GitAnswers == {[files |-> ok, patch |-> ok] : ok \in BOOLEAN}

\* the messages of the detail panes
TextSelect == <<"Select a worktree">>
TextNoAgent == <<"Agent pane is not available for this worktree.">>
TextNoDiff == <<"Unable to read git diff.">>
TextNoPatch == <<"Unable to read file diff.">>
TextClean == <<"(working tree is clean)">>

\* what a render did: the dashboard after it, the cache keys it answered from
\* the cache and the keys it asked git for
Rendered(u, served, fetched) == [u |-> u, served |-> served, fetched |-> fetched]

\* the keys of file lists and the keys of patches
Keys(files, patches) == [files |-> files, patches |-> patches]
NoKeys == Keys({}, {})
Join(a, b) == Keys(a.files \cup b.files, a.patches \cup b.patches)

\* one render after another
Both(first, second) ==
    Rendered(second.u, Join(first.served, second.served), Join(first.fetched, second.fetched))

\* tuiState.applyFilter with an empty filter: every item is visible
applyFilter(u) ==
    LET clamp(n) == IF n < 0 THEN 0 ELSE n
    IN  [u EXCEPT !.selected = clamp(IF @ >= Len(u.items) THEN Len(u.items) - 1 ELSE @)]

\* tuiState.selectedItem: a copy of the selected item, "" for nil
selectedItem(u) ==
    IF Len(u.items) = 0 \/ u.selected < 0 \/ u.selected >= Len(u.items)
    THEN ""
    ELSE u.items[u.selected + 1]

\* tuiState.syncDiffFiles
syncDiffFiles(u, path, files) ==
    LET prev == IF path = u.diffPath /\ u.diffSel >= 0 /\ u.diffSel < Len(u.diffItems)
                THEN {u.diffItems[u.diffSel + 1].Path}
                ELSE {}
        found == {i \in 1..Len(files) : files[i].Path \in prev}
        sel(n) == IF n < 0 THEN 0 ELSE IF n >= Len(files) THEN Len(files) - 1 ELSE n
    IN  [u EXCEPT !.diffPath = path, !.diffItems = files,
                  !.diffSel = IF Len(files) = 0 THEN 0
                              ELSE IF found # {} THEN (CHOOSE i \in found : \A j \in found : i <= j) - 1
                              ELSE IF path # u.diffPath THEN 0
                              ELSE sel(@)]

\* tuiState.renderSelectedFileDiff
renderSelectedFileDiff(u, now, git) ==
    LET shown(r, key) ==
            Rendered([r.u EXCEPT !.lastDiff = IF r.ok THEN r.text ELSE TextNoPatch],
                     IF r.ran THEN NoKeys ELSE Keys({}, {key}),
                     IF r.ran THEN Keys({}, {key}) ELSE NoKeys)
        patch(path, file) ==
            shown(cachedFileDiff(u, now, path, file, Width,
                                 [ok |-> git.patch,
                                  text |-> Shown(diffPatchCacheKey(path, file, Width), now)]),
                  diffPatchCacheKey(path, file, Width))
    IN  IF selectedItem(u) = ""
        THEN Rendered([u EXCEPT !.lastDiff = TextSelect], NoKeys, NoKeys)
        ELSE IF Len(u.diffItems) = 0 \/ u.diffSel < 0 \/ u.diffSel >= Len(u.diffItems)
        THEN Rendered([u EXCEPT !.lastDiff = TextClean], NoKeys, NoKeys)
        ELSE patch(selectedItem(u), u.diffItems[u.diffSel + 1])

\* tuiState.renderDiffDetail
renderDiffDetail(u, now, git) ==
    LET listed(r, path) ==
            IF ~r.ok
            THEN Rendered([r.u EXCEPT !.diffItems = <<>>, !.diffSel = 0, !.diffPath = path,
                                      !.lastDiff = TextNoDiff], NoKeys, Keys({path}, {}))
            ELSE Both(Rendered(r.u, IF r.ran THEN NoKeys ELSE Keys({path}, {}),
                               IF r.ran THEN Keys({path}, {}) ELSE NoKeys),
                      renderSelectedFileDiff(syncDiffFiles(r.u, path, r.files), now, git))
    IN  IF selectedItem(u) = ""
        THEN Rendered([u EXCEPT !.diffItems = <<>>, !.diffSel = 0, !.diffPath = "",
                                !.lastDiff = TextSelect], NoKeys, NoKeys)
        ELSE listed(cachedDiffFiles(u, now, selectedItem(u),
                                    [ok |-> git.files, files |-> Changes(selectedItem(u))]),
                    selectedItem(u))

\* tuiState.renderAgentDetail when no working copy runs an agent
renderAgentDetail(u) ==
    IF selectedItem(u) = ""
    THEN Rendered([u EXCEPT !.detail = TextSelect], NoKeys, NoKeys)
    ELSE Rendered([u EXCEPT !.agentPrompt = "none", !.detail = TextNoAgent], NoKeys, NoKeys)

\* tuiState.renderDetails
renderDetails(u, now, git) ==
    IF u.detailTab = "diff" THEN renderDiffDetail(u, now, git) ELSE renderAgentDetail(u)

\* tuiState.renderFooter
renderFooter(u, level, message) == [u EXCEPT !.footer = <<level, message>>]

\* the list is replaced by a listing and drawn, as the callbacks of the create
\* and the remove goroutine do it: the caches stay as they are
ShowListing(u, now, items, git) ==
    renderDetails(applyFilter([u EXCEPT !.items = items]), now, git)

\* tuiState.refresh with the listing Manager.ListWorktrees returned
refresh(u, now, items, git) ==
    renderDetails(applyFilter([clearDiffCaches(u) EXCEPT !.items = items, !.agentPrompt = "none"]),
                  now, git)

\* tuiState.selectPath
selectPath(u, now, path, git) ==
    LET at == {pos \in 1..Len(u.items) : u.items[pos] = path}
    IN  IF at = {}
        THEN Rendered(u, NoKeys, NoKeys)
        ELSE renderDetails([u EXCEPT !.selected = (CHOOSE pos \in at : \A q \in at : pos <= q) - 1],
                           now, git)

\* tuiState.isMainFocus: no modal has the focus
isMainFocus(u) == u.modal = ""

\* a callback for the UI event queue
Callback(op, path, ok, listed, refreshed) ==
    [op |-> op, path |-> path, ok |-> ok, listed |-> listed, refreshed |-> refreshed]

\* tview's Application.QueueUpdateDraw
QueueUpdateDraw(r, callback) == [r EXCEPT !.queue = Append(@, callback)]

\* the goroutine behind a progress modal, before it is started
NoJob == [kind |-> "", pc |-> "", path |-> "", ok |-> FALSE, listed |-> FALSE, refreshed |-> <<>>]

\* the step a thread took: the thread, what it did, the dashboard fields it
\* read or wrote, whether it replaced the list, and what its renders served
\* and fetched
Step(by, op, touched, replaced, r) ==
    [by |-> by, op |-> op, touched |-> touched, replaced |-> replaced,
     served |-> r.served, fetched |-> r.fetched]

Untouched == Rendered(ui, NoKeys, NoKeys)

\* the fields of tuiState a handler that redraws the details goes through
DetailFields ==
    {"items", "selected", "detailTab", "diffCache", "patchCache", "agentPrompt",
     "diffItems", "lastDiff"}

\* RunUI: the first refresh, then the update check and the live ticker start
DashInit ==
    /\ cfg = BaseConfig(<<StrAgent>>, {StrTmux}, FALSE)
    /\ branches = {StrMain}
    /\ worktrees = {[path |-> RepoRoot, branch |-> StrMain]}
    /\ dirs = {<<"/">>, RepoRoot}
    /\ dirty = {}
    /\ tmux = EmptyMap
    /\ log = <<>>
    /\ pane = NoPane
    /\ ui = refresh(NewDashboard, 0, Listing({RootCopy}), [files |-> TRUE, patch |-> TRUE]).u
    /\ last = Step("ui", "RunUI", DetailFields, TRUE, Untouched)
    /\ rt = [now |-> 0, repo |-> {RootCopy}, queue |-> <<>>,
             job |-> NoJob, ticking |-> FALSE, update |-> "checking", target |-> ""]

\* a UI-thread step that ends with the dashboard r.u
OnUi(op, touched, replaced, r) ==
    /\ ui' = r.u
    /\ last' = Step("ui", op, touched, replaced, r)

\* a step of a goroutine, or of the clock: the dashboard is neither read nor
\* written
OffUi(by, op) ==
    /\ ui' = ui
    /\ last' = Step(by, op, {}, FALSE, Untouched)

\* handleKey 'r': refresh, or the error in the footer
KeyRefresh ==
    /\ isMainFocus(ui)
    /\ \E listed \in BOOLEAN, git \in GitAnswers :
           IF listed
           THEN OnUi("refresh", DetailFields, TRUE, refresh(ui, rt.now, Listing(rt.repo), git))
           ELSE OnUi("refresh", {"footer"}, FALSE,
                     Rendered(renderFooter(ui, "ERROR", "refresh failed"), NoKeys, NoKeys))
    /\ rt' = rt
    /\ UNCHANGED <<cfg, branches, worktrees, dirs, dirty, tmux, log, pane>>

\* handleKey '[' and ']': cycleDetailTab, setDetailTab
KeyTab ==
    /\ isMainFocus(ui)
    /\ \E git \in GitAnswers :
           IF ui.detailTab = "agent"
           THEN OnUi("setDetailTab", DetailFields, FALSE,
                     renderDetails([ui EXCEPT !.detailTab = "diff", !.lastDiff = <<>>], rt.now, git))
           ELSE OnUi("setDetailTab", DetailFields, FALSE,
                     renderDetails([ui EXCEPT !.detailTab = "agent", !.detail = <<>>], rt.now, git))
    /\ rt' = rt
    /\ UNCHANGED <<cfg, branches, worktrees, dirs, dirty, tmux, log, pane>>

\* handleKey 'j' and 'k': moveSelection
KeyMove ==
    /\ isMainFocus(ui)
    /\ Len(ui.items) > 0
    /\ \E delta \in {-1, 1}, git \in GitAnswers :
           LET clamp(n) == IF n < 0 THEN 0 ELSE IF n >= Len(ui.items) THEN Len(ui.items) - 1 ELSE n
           IN  OnUi("moveSelection", DetailFields, FALSE,
                    renderDetails([ui EXCEPT !.selected = clamp(@ + delta)], rt.now, git))
    /\ rt' = rt
    /\ UNCHANGED <<cfg, branches, worktrees, dirs, dirty, tmux, log, pane>>

\* handleKey 'n' and 'x': the create form, or the remove form for a copy of
\* the selected item
ShowModal ==
    /\ isMainFocus(ui)
    /\ \E name \in {"create", "delete"} :
           /\ name = "delete" => selectedItem(ui) # ""
           /\ OnUi("showModal", {"items", "selected", "modal"}, FALSE,
                   Rendered([ui EXCEPT !.modal = name], NoKeys, NoKeys))
           /\ rt' = [rt EXCEPT !.target = IF name = "delete" THEN selectedItem(ui) ELSE NewCopy]
    /\ UNCHANGED <<cfg, branches, worktrees, dirs, dirty, tmux, log, pane>>

\* the form is confirmed: showProgressModal, and the goroutine starts
Confirm ==
    /\ ui.modal \in {"create", "delete"}
    /\ OnUi("showProgressModal", {"modal"}, FALSE,
            Rendered([ui EXCEPT !.modal = IF @ = "create" THEN "create-progress" ELSE "delete-progress"],
                     {}, {}))
    /\ rt' = [rt EXCEPT !.job = [NoJob EXCEPT !.kind = ui.modal, !.pc = "run", !.path = rt.target],
                        !.ticking = TRUE, !.target = ""]
    /\ UNCHANGED <<cfg, branches, worktrees, dirs, dirty, tmux, log, pane>>

\* the form is closed with escape
Cancel ==
    /\ ui.modal \in {"create", "delete"}
    /\ OnUi("closeModal", {"modal"}, FALSE, Rendered([ui EXCEPT !.modal = ""], NoKeys, NoKeys))
    /\ rt' = [rt EXCEPT !.target = ""]
    /\ UNCHANGED <<cfg, branches, worktrees, dirs, dirty, tmux, log, pane>>

\* advance of showProgressModal: the step and the label of the modal change,
\* which are variables of its closure, and a render is queued
advance(r) == QueueUpdateDraw(r, Callback("render", "", TRUE, FALSE, <<>>))

\* the create goroutine: advance, Manager.NewWorktree
CreateWorktree ==
    /\ rt.job.kind = "create" /\ rt.job.pc = "run"
    /\ Len(rt.queue) < MaxQueue
    /\ \E ok \in BOOLEAN :
           /\ ok => NewCopy \notin rt.repo
           /\ rt' = [advance(rt) EXCEPT !.repo = IF ok THEN @ \cup {NewCopy} ELSE @,
                                !.job.ok = ok, !.job.pc = IF ok THEN "list" ELSE "post"]
    /\ OffUi("create", "NewWorktree")
    /\ UNCHANGED <<cfg, branches, worktrees, dirs, dirty, tmux, log, pane>>

\* the remove goroutine: advance, Manager.Remove of the copied item
RemoveWorktree ==
    /\ rt.job.kind = "delete" /\ rt.job.pc = "run"
    /\ Len(rt.queue) < MaxQueue
    /\ \E ok \in BOOLEAN :
           /\ ok => rt.job.path # RootCopy /\ rt.job.path \in rt.repo
           /\ rt' = [advance(rt) EXCEPT !.repo = IF ok THEN @ \ {rt.job.path} ELSE @,
                                !.job.ok = ok, !.job.pc = IF ok THEN "list" ELSE "post"]
    /\ OffUi("delete", "Remove")
    /\ UNCHANGED <<cfg, branches, worktrees, dirs, dirty, tmux, log, pane>>

\* either goroutine after its operation went well: advance, Manager.ListWorktrees
ListRefreshed ==
    /\ rt.job.pc = "list"
    /\ Len(rt.queue) < MaxQueue
    /\ \E listed \in BOOLEAN :
           rt' = [advance(rt) EXCEPT !.job.pc = "post", !.job.listed = listed,
                                     !.job.refreshed = IF listed THEN Listing(rt.repo) ELSE <<>>]
    /\ OffUi(rt.job.kind, "ListWorktrees")
    /\ UNCHANGED <<cfg, branches, worktrees, dirs, dirty, tmux, log, pane>>

\* the goroutine that hands its result to the dashboard itself
PostResultUnqueued ==
    /\ rt.job.pc = "post"
    /\ Len(rt.queue) < MaxQueue
    /\ rt' = [rt EXCEPT !.job = NoJob]
    /\ ui' = IF rt.job.ok /\ rt.job.listed THEN [ui EXCEPT !.items = rt.job.refreshed] ELSE ui
    /\ last' = Step(rt.job.kind, "QueueUpdateDraw", {}, FALSE, Untouched)
    /\ UNCHANGED <<cfg, branches, worktrees, dirs, dirty, tmux, log, pane>>

\* either goroutine ends: its result goes to the UI thread as a callback
PostResult ==
    /\ rt.job.pc = "post"
    /\ Len(rt.queue) < MaxQueue
    /\ rt' = [QueueUpdateDraw(rt, Callback(IF rt.job.kind = "create" THEN "created" ELSE "removed",
                                           rt.job.path, rt.job.ok, rt.job.listed, rt.job.refreshed))
                 EXCEPT !.job = NoJob]
    /\ OffUi(rt.job.kind, "QueueUpdateDraw")
    /\ UNCHANGED <<cfg, branches, worktrees, dirs, dirty, tmux, log, pane>>

\* the ticker goroutine of showProgressModal: the next spinner frame, which
\* is a variable of the closure, and a queued render
ProgressTick ==
    /\ rt.ticking
    /\ Len(rt.queue) < MaxQueue
    /\ rt' = QueueUpdateDraw(rt, Callback("render", "", TRUE, FALSE, <<>>))
    /\ OffUi("progress", "frame")
    /\ UNCHANGED <<cfg, branches, worktrees, dirs, dirty, tmux, log, pane>>

\* the ticker goroutine of startLiveDetailUpdates
LiveTick ==
    /\ Len(rt.queue) < MaxQueue
    /\ rt' = QueueUpdateDraw(rt, Callback("live", "", TRUE, FALSE, <<>>))
    /\ OffUi("live", "tick")
    /\ UNCHANGED <<cfg, branches, worktrees, dirs, dirty, tmux, log, pane>>

\* the goroutine of startUpdateCheck: checkForUpdate, a callback when there
\* is a newer release
UpdateCheck ==
    /\ rt.update = "checking"
    /\ Len(rt.queue) < MaxQueue
    /\ \E newer \in BOOLEAN :
           rt' = [(IF newer THEN QueueUpdateDraw(rt, Callback("update", "", TRUE, FALSE, <<>>)) ELSE rt)
                     EXCEPT !.update = "done"]
    /\ OffUi("update", "checkForUpdate")
    /\ UNCHANGED <<cfg, branches, worktrees, dirs, dirty, tmux, log, pane>>

\* the callback of the create and of the remove goroutine, on the dashboard
\* with the progress modal closed
Finished(u, now, c, git) ==
    LET word == IF c.op = "created" THEN "created" ELSE "removed"
        footer(r) ==
            Rendered(IF c.op = "created" /\ ~c.listed THEN renderFooter(r.u, "WARN", word)
                     ELSE renderFooter(r.u, "INFO", word), r.served, r.fetched)
        drawn(r) ==
            IF c.op = "created" THEN Both(r, selectPath(r.u, now, c.path, git)) ELSE r
    IN  IF ~c.ok
        THEN Rendered(renderFooter(u, "ERROR", "failed"), NoKeys, NoKeys)
        ELSE IF c.listed
        THEN footer(drawn(ShowListing(u, now, c.refreshed, git)))
        ELSE footer(Rendered(u, NoKeys, NoKeys))

\* the UI thread runs the callback at the head of its event queue
RunQueued ==
    /\ rt.queue # <<>>
    /\ \E git \in GitAnswers :
           LET c == Head(rt.queue)
           IN  CASE c.op \in {"created", "removed"} ->
                        /\ OnUi(c.op, DetailFields \cup {"modal", "footer"}, c.ok /\ c.listed,
                                Finished([ui EXCEPT !.modal = ""], rt.now, c, git))
                        /\ rt' = [rt EXCEPT !.queue = Tail(@), !.ticking = FALSE]
                  [] c.op = "live" ->
                        /\ OnUi("live", {"modal", "items", "selected", "detailTab"}, FALSE, Untouched)
                        /\ rt' = [rt EXCEPT !.queue = Tail(@)]
                  [] c.op = "render" ->
                        /\ OnUi("render", {}, FALSE, Untouched)
                        /\ rt' = [rt EXCEPT !.queue = Tail(@)]
                  [] c.op = "update" ->
                        /\ OnUi("update", {"footer"}, FALSE,
                                Rendered(renderFooter(ui, "WARN", "update available"), NoKeys, NoKeys))
                        /\ rt' = [rt EXCEPT !.queue = Tail(@)]
    /\ UNCHANGED <<cfg, branches, worktrees, dirs, dirty, tmux, log, pane>>

\* time passes: the dashboard is watched for a patch TTL, which is more than
\* a file-list TTL
Elapse ==
    /\ rt.now < diffPatchCacheTTL
    /\ rt' = [rt EXCEPT !.now = diffPatchCacheTTL]
    /\ OffUi("clock", "elapse")
    /\ UNCHANGED <<cfg, branches, worktrees, dirs, dirty, tmux, log, pane>>

DashNext ==
    \/ KeyRefresh
    \/ KeyTab
    \/ KeyMove
    \/ ShowModal
    \/ Confirm
    \/ Cancel
    \/ CreateWorktree
    \/ RemoveWorktree
    \/ ListRefreshed
    \/ PostResult
    \/ ProgressTick
    \/ LiveTick
    \/ UpdateCheck
    \/ RunQueued
    \/ Elapse

DashSpec == DashInit /\ [][DashNext]_vars

(* ------------------------------------------------------------------ *)
(* Locks: debugLogMu, the mutex of the progress modal, subprocesses   *)
(* ------------------------------------------------------------------ *)

\* The UI thread, the goroutine behind a progress modal and the ticker of the
\* modal, step by step.  The first two write to the debug log and run git and
\* tmux; all three go through the mutex of the progress modal.  rt holds where
\* each thread is, who holds each mutex, the debug log file as the pieces that
\* were written to it, and the threads whose subprocess is running.

Threads == {"ui", "create", "progress"}
LogThreads == {"ui", "create"}

\* debugLogf calls of a thread
MaxCalls == 2

\* a thread between two operations
Resting == [at |-> "idle", then |-> "idle"]

\* a piece of a line of the debug log: the thread and the call it comes from,
\* and which piece it is; WriteString may need more than one write for a line
Piece(t, call, part) == <<t, call, part>>

LockInit ==
    /\ cfg = BaseConfig(<<StrAgent>>, {StrTmux}, FALSE)
    /\ branches = {StrMain}
    /\ worktrees = {[path |-> RepoRoot, branch |-> StrMain]}
    /\ dirs = {<<"/">>, RepoRoot}
    /\ dirty = {}
    /\ tmux = EmptyMap
    /\ log = <<>>
    /\ last = Idle
    /\ pane = NoPane
    /\ ui = NewDashboard
    /\ rt = [now |-> 0, pc |-> [t \in Threads |-> Resting], debugLogMu |-> "", mu |-> "",
             file |-> <<>>, calls |-> [t \in Threads |-> 0], procs |-> {}]

\* a thread goes from one place to the next
Goes(r, t, at, then) == [r EXCEPT !.pc[t] = [at |-> at, then |-> then]]

\* a call of debugLogf by a handler or by the goroutine itself
LogCall ==
    /\ \E t \in LogThreads :
           /\ rt.pc[t].at = "idle"
           /\ rt.calls[t] < MaxCalls
           /\ rt' = [Goes(rt, t, "debugLogf", "idle") EXCEPT !.calls[t] = @ + 1]
    /\ UNCHANGED <<cfg, branches, worktrees, dirs, dirty, tmux, log, last, pane, ui>>

\* runCmdBytesWithTimeout: debugLogf("cmd start"), then the command
RunCmd ==
    /\ \E t \in LogThreads :
           /\ rt.pc[t].at = "idle"
           /\ rt.calls[t] + 1 < MaxCalls
           /\ rt' = [Goes(rt, t, "debugLogf", "exec") EXCEPT !.calls[t] = @ + 1]
    /\ UNCHANGED <<cfg, branches, worktrees, dirs, dirty, tmux, log, last, pane, ui>>

\* debugLogf: the directory is made and the line formatted; then the thread
\* waits for the mutex, unless the directory cannot be made
LogFormat ==
    /\ \E t \in LogThreads, made \in BOOLEAN :
           /\ rt.pc[t].at = "debugLogf"
           /\ rt' = IF made THEN Goes(rt, t, "Lock", rt.pc[t].then)
                    ELSE Goes(rt, t, rt.pc[t].then, "idle")
    /\ UNCHANGED <<cfg, branches, worktrees, dirs, dirty, tmux, log, last, pane, ui>>

\* debugLogf that goes on without the mutex
LogLockNone(t) ==
    /\ rt.pc[t].at = "Lock"
    /\ rt' = Goes(rt, t, "OpenFile", rt.pc[t].then)

\* debugLogMu.Lock()
LogLock(t) ==
    /\ rt.pc[t].at = "Lock"
    /\ rt.debugLogMu = ""
    /\ rt' = [Goes(rt, t, "OpenFile", rt.pc[t].then) EXCEPT !.debugLogMu = t]

\* os.OpenFile: what cannot be opened is not written, and the deferred Unlock
\* runs
LogOpen(t) ==
    /\ rt.pc[t].at = "OpenFile"
    /\ \E opened \in BOOLEAN :
           rt' = IF opened THEN Goes(rt, t, "WriteString", rt.pc[t].then)
                 ELSE [Goes(rt, t, rt.pc[t].then, "idle") EXCEPT !.debugLogMu = ""]

\* f.WriteString(line): the first piece, then the rest
LogWrite(t) ==
    \/ /\ rt.pc[t].at = "WriteString"
       /\ rt' = [Goes(rt, t, "written", rt.pc[t].then) EXCEPT
                    !.file = Append(@, Piece(t, rt.calls[t], 1))]
    \/ /\ rt.pc[t].at = "written"
       /\ rt' = [Goes(rt, t, "Close", rt.pc[t].then) EXCEPT
                    !.file = Append(@, Piece(t, rt.calls[t], 2))]

\* debugLogf that returns with the mutex held
LogCloseHolding(t) ==
    /\ rt.pc[t].at = "Close"
    /\ rt' = Goes(rt, t, rt.pc[t].then, "idle")

\* f.Close(), and the deferred debugLogMu.Unlock()
LogClose(t) ==
    /\ rt.pc[t].at = "Close"
    /\ rt' = [Goes(rt, t, rt.pc[t].then, "idle") EXCEPT
                 !.debugLogMu = IF @ = t THEN "" ELSE @]

\* the steps of debugLogf from the mutex on
LogStep ==
    /\ \E t \in LogThreads : LogLock(t) \/ LogOpen(t) \/ LogWrite(t) \/ LogClose(t)
    /\ UNCHANGED <<cfg, branches, worktrees, dirs, dirty, tmux, log, last, pane, ui>>

\* cmd.CombinedOutput: the binary is started
Exec ==
    /\ \E t \in LogThreads :
           /\ rt.pc[t].at = "exec"
           /\ rt' = [Goes(rt, t, "wait", "idle") EXCEPT !.procs = @ \cup {t}]
    /\ UNCHANGED <<cfg, branches, worktrees, dirs, dirty, tmux, log, last, pane, ui>>

\* the binary ends or is killed at the timeout: debugLogf("cmd ok"), or
\* debugLogf("cmd fail")
Wait ==
    /\ \E t \in LogThreads :
           /\ rt.pc[t].at = "wait"
           /\ rt' = [Goes(rt, t, "debugLogf", "idle") EXCEPT !.procs = @ \ {t}, !.calls[t] = @ + 1]
    /\ UNCHANGED <<cfg, branches, worktrees, dirs, dirty, tmux, log, last, pane, ui>>

\* showProgressModal: mu.Lock() in render on the UI thread, in advance,
\* setLabel and setStepProgress on the goroutine, and in the ticker
MuLock ==
    /\ \E t \in Threads :
           /\ rt.pc[t].at = "idle"
           /\ rt.mu = ""
           /\ rt' = [Goes(rt, t, "mu", "idle") EXCEPT !.mu = t]
    /\ UNCHANGED <<cfg, branches, worktrees, dirs, dirty, tmux, log, last, pane, ui>>

\* the variables of the closure are read or written, then mu.Unlock(); the
\* render is queued or drawn after that
MuUnlock ==
    /\ \E t \in Threads :
           /\ rt.pc[t].at = "mu"
           /\ rt' = [Goes(rt, t, "idle", "idle") EXCEPT !.mu = ""]
    /\ UNCHANGED <<cfg, branches, worktrees, dirs, dirty, tmux, log, last, pane, ui>>

LockNext ==
    \/ LogCall
    \/ RunCmd
    \/ LogFormat
    \/ LogStep
    \/ Exec
    \/ Wait
    \/ MuLock
    \/ MuUnlock

LockSpec == LockInit /\ [][LockNext]_vars

(* ------------------------------------------------------------------ *)
(* Text: the pure functions of manager.go applied to bounded inputs   *)
(* ------------------------------------------------------------------ *)

MaxText == 4

\* a lower and an upper case letter, the separators Slugify and safeName treat
\* in their own way, and one character both of them replace
TextChars == {"a", "A", "-", "/", "_", " ", "."}

Texts == UNION {[1..n -> TextChars] : n \in 0..MaxText}

\* the texts safeName is applied to: Texts, and the word default with at most
\* one character before and after it
SafeTexts ==
    Texts \cup {pre \o StrDefault \o post :
                    pre \in {t \in Texts : Len(t) <= 1}, post \in {t \in Texts : Len(t) <= 1}}

\* the kinds of error text the retry rules are applied to
ErrorKinds ==
    {"timeout", "branch-exists", "path-exists", "checked-out", "registered", "cannot-lock",
     "unable-create", "cannot-create", "invalid-ref", "is-locked", "cannot-remove",
     "not-worktree", "main-worktree", "dirty-tree", "branch-in-use", "branch-missing", "io"}

\* the value of a decimal digit
DigitValue(c) == CHOOSE v \in 0..9 : Digits[v + 1] = c

RECURSIVE DecimalValue(_)
DecimalValue(ds) ==
    IF ds = <<>> THEN 0
    ELSE 10 * DecimalValue(SubSeq(ds, 1, Len(ds) - 1)) + DigitValue(ds[Len(ds)])

\* the largest int, 2^63 - 1, as text
StrMaxInt ==
    <<"9", "2", "2", "3", "3", "7", "2", "0", "3", "6", "8", "5", "4", "7", "7", "5", "8", "0", "7">>

\* a is at most b, for digit texts of the same length
RECURSIVE DigitsLeq(_, _)
DigitsLeq(a, b) ==
    \/ a = <<>>
    \/ DigitValue(Head(a)) < DigitValue(Head(b))
    \/ Head(a) = Head(b) /\ DigitsLeq(Tail(a), Tail(b))

\* the constants of gitWorktreeCommandTimeout
defaultSeconds == 45
minSeconds == 5
maxSeconds == 600

\* strconv.Atoi: [ok, n].  An optional sign, then decimal digits only; a value
\* outside the 64-bit int is an error.  A value of more than 9 digits is
\* represented by maxSeconds + 1, which every comparison of the caller treats
\* as it treats the value.
Atoi(s) ==
    LET signed(t) == t # <<>> /\ Head(t) \in {"+", "-"}
        negative(t) == t # <<>> /\ Head(t) = "-"
        digits(t) == IF signed(t) THEN Tail(t) ELSE t
        inRange(ds, neg) ==
            \/ Len(ds) < Len(StrMaxInt)
            \/ Len(ds) = Len(StrMaxInt) /\ (DigitsLeq(ds, StrMaxInt) \/ (neg /\ ds = [StrMaxInt EXCEPT ![Len(StrMaxInt)] = "8"]))
        magnitude(ds) == IF Len(ds) > 9 THEN maxSeconds + 1 ELSE DecimalValue(ds)
        value(ds, neg) ==
            IF ~inRange(ds, neg) THEN [ok |-> FALSE, n |-> 0]
            ELSE [ok |-> TRUE, n |-> IF neg THEN 0 - magnitude(ds) ELSE magnitude(ds)]
        parse(ds, neg) ==
            IF ds = <<>> \/ \E i \in 1..Len(ds) : ds[i] \notin DigitChars
            THEN [ok |-> FALSE, n |-> 0]
            ELSE value(TrimLeft(SubSeq(ds, 1, Len(ds) - 1), {"0"}) \o <<ds[Len(ds)]>>, neg)
    IN  parse(digits(s), negative(s))

gitWorktreeCommandTimeoutNoFloor(env) ==
    LET clamp(seconds) == IF seconds > maxSeconds THEN maxSeconds ELSE seconds
        parsed(r) == IF r.ok THEN clamp(r.n) ELSE defaultSeconds
        read(raw) == IF raw = <<>> THEN defaultSeconds ELSE parsed(Atoi(raw))
    IN  read(TrimSpace(env))

\* gitWorktreeCommandTimeout, in seconds; env is the value of
\* SPROUT_GIT_WORKTREE_TIMEOUT_SECONDS, <<>> when it is not set
gitWorktreeCommandTimeout(env) ==
    LET floor(seconds) == IF seconds < minSeconds THEN minSeconds ELSE seconds
        clamp(seconds) == IF seconds > maxSeconds THEN maxSeconds ELSE seconds
        parsed(r) == IF r.ok THEN clamp(floor(r.n)) ELSE defaultSeconds
        read(raw) == IF raw = <<>> THEN defaultSeconds ELSE parsed(Atoi(raw))
    IN  read(TrimSpace(env))

\* values of SPROUT_GIT_WORKTREE_TIMEOUT_SECONDS
TimeoutTexts ==
    {<<>>, <<" ">>, <<"2">>, <<"1", "2", "0">>, <<"1", "0", "0", "0", "0">>,
     <<" ", "1", "2", "0", " ">>, <<"0">>, <<"4">>, <<"5">>, <<"6">>, <<"4", "5">>,
     <<"5", "9", "9">>, <<"6", "0", "0">>, <<"6", "0", "1">>, <<"-", "3">>, <<"+", "7">>,
     <<"0", "0", "7">>, <<"a">>, <<"1", "2", "a">>, <<"1", " ", "2">>, <<"-">>, <<"1", ".", "5">>,
     <<"4", "2", "9", "4", "9", "6", "7", "2", "9", "8">>,
     StrMaxInt, [StrMaxInt EXCEPT ![Len(StrMaxInt)] = "8"],
     <<"-">> \o [StrMaxInt EXCEPT ![Len(StrMaxInt)] = "8"],
     StrMaxInt \o <<"0">>}

\* copy_untracked_exclude of the configuration: build, dist/**, *.log, tmp/
CopyExclude == <<"build", "dist/**", "*.log", "tmp/">>

\* the configuration of the text functions
TextConfig == [CopyUntrackedExclude |-> CopyExclude] @@ BaseConfig(<<StrAgent>>, {StrTmux}, FALSE)

\* Paths relative to the repository root are sequences of segments.  The
\* files of the source tree that git does not track:
CopyFiles ==
    {<<"build", "output", "app">>, <<"dist", "assets", "x">>, <<"tmp", "cache">>,
     <<"logs", "app.log">>, <<"notes", "logs.txt">>, <<"src", "build-ing">>, <<"builds", "app">>}

\* the directories .gitignore may name
IgnoredDirs == {<<"build">>, <<"dist">>}

\* dir is path or a directory above it
Above(dir, path) == Len(dir) <= Len(path) /\ SubSeq(path, 1, Len(dir)) = dir

\* the records of  git status --porcelain=v2 -z --untracked-files=all
\* --ignored=matching : a tracked entry, every untracked file outside the
\* ignored directories, and every ignored directory that holds a file (printed
\* with a trailing slash)
GitStatus(files, ignored) ==
    {[mark |-> "1", path |-> <<"main.go">>, slash |-> FALSE]}
    \cup {[mark |-> "?", path |-> f, slash |-> FALSE] :
              f \in {g \in files : \A d \in ignored : ~Above(d, g)}}
    \cup {[mark |-> "!", path |-> d, slash |-> TRUE] :
              d \in {e \in ignored : \E g \in files : Above(e, g)}}

\* Manager.collectCopyCandidates: the paths of the ? and ! records, without
\* the trailing slash, but for .git and what is under it (as a set: the order
\* of the sorted list decides nothing when no copy fails)
collectCopyCandidates(records) ==
    {r.path : r \in {q \in records : /\ q.mark \in {"?", "!"}
                                     /\ q.path # <<>>
                                     /\ Head(q.path) # ".git"}}

\* Manager.CopyUntrackedAndIgnored without copy failures: the relative paths
\* under targetRoot afterwards.  copyPath copies a file, or a directory with
\* all beneath it, and makes the directories above what it copies.
CopiedPaths(files, candidates) ==
    LET made(copied) == UNION {{SubSeq(f, 1, n) : n \in 1..Len(f)} : f \in copied}
    IN  made({f \in files : \E c \in candidates : Above(c, f)})

TextInit ==
    /\ cfg = TextConfig
    /\ branches = {StrMain}
    /\ worktrees = {[path |-> RepoRoot, branch |-> StrMain]}
    /\ dirs = {<<"/">>, RepoRoot}
    /\ dirty = {}
    /\ tmux = EmptyMap
    /\ log = <<>>
    /\ last = Idle
    /\ pane = NoPane
    /\ ui = NewUi
    /\ rt = NoRuntime

\* Slugify of a text, and of its result
SlugifyText ==
    /\ last.op = ""
    /\ \E x \in Texts :
           LET again(first) == IF first.ok THEN Slugify(first.slug) ELSE first
           IN  last' = [op |-> "Slugify", input |-> x, out |-> Slugify(x), again |-> again(Slugify(x))]
    /\ UNCHANGED <<cfg, branches, worktrees, dirs, dirty, tmux, log, pane, ui, rt>>

SafeNameText ==
    /\ last.op = ""
    /\ \E x \in SafeTexts : last' = [op |-> "safeName", input |-> x, out |-> safeName(x)]
    /\ UNCHANGED <<cfg, branches, worktrees, dirs, dirty, tmux, log, pane, ui, rt>>

\* a working-copy add or remove fails with an error of the kind, and the retry
\* rules are asked
ClassifyError ==
    /\ last.op = ""
    /\ \E kind \in ErrorKinds :
           last' = [op |-> "shouldRetry", kind |-> kind,
                    add |-> shouldRetryWorktreeAdd(kind), remove |-> shouldRetryWorktreeRemove(kind)]
    /\ UNCHANGED <<cfg, branches, worktrees, dirs, dirty, tmux, log, pane, ui, rt>>

ReadTimeout ==
    /\ last.op = ""
    /\ \E env \in TimeoutTexts :
           last' = [op |-> "gitWorktreeCommandTimeout", env |-> env, out |-> gitWorktreeCommandTimeout(env)]
    /\ UNCHANGED <<cfg, branches, worktrees, dirs, dirty, tmux, log, pane, ui, rt>>

\* the untracked copy of NewWorktree, from a source tree into a new working copy
CopyUntracked ==
    /\ last.op = ""
    /\ \E files \in SUBSET CopyFiles, ignored \in SUBSET IgnoredDirs :
           last' = [op |-> "CopyUntrackedAndIgnored", exclude |-> cfg.CopyUntrackedExclude,
                    source |-> files,
                    dest |-> CopiedPaths(files, collectCopyCandidates(GitStatus(files, ignored)))]
    /\ UNCHANGED <<cfg, branches, worktrees, dirs, dirty, tmux, log, pane, ui, rt>>

\* setLegacySessionTool (config.go): the tool is switched on or off in the
\* normalized list
setLegacySessionTool(tools, tool, enabled) ==
    LET known(low) ==
            IF low \in {StrNvim, StrNeovim} THEN StrNvim
            ELSE IF low = StrLazygit THEN StrLazygit
            ELSE IF low = StrAgent THEN StrAgent
            ELSE <<>>
        switched(normalized, target) ==
            IF target = <<>> THEN normalized
            ELSE IF enabled
            THEN IF \E i \in 1..Len(normalized) : normalized[i] = target
                 THEN normalized
                 ELSE Append(normalized, target)
            ELSE SelectSeq(normalized, LAMBDA existing : existing # target)
    IN  switched(normalizeSessionTools(tools), known(ToLower(TrimSpace(tool))))

\* the entries of a session_tools line: the known tools as they may be spelled
LoadEntries ==
    {StrAgent, <<"A", "g", "e", "n", "t">>, <<" ">> \o StrLazygit, StrNvim, StrNeovim,
     StrBash \o <<" ", "x">>}

\* parseTOMLFlat on a file with a session_tools line and, after it, a
\* launch_nvim line or none: the session tools of the loaded configuration
LoadSessionTools ==
    /\ last.op = ""
    /\ \E tools \in UNION {[1..n -> LoadEntries] : n \in 0..MaxTools},
          nvim \in {"unset", "true", "false"} :
           LET legacy(loaded) ==
                   IF nvim = "unset" THEN loaded
                   ELSE setLegacySessionTool(loaded, StrNvim, nvim = "true")
           IN  last' = [op |-> "LoadConfig", input |-> tools, nvim |-> nvim,
                        out |-> legacy(normalizeSessionTools(tools))]
    /\ UNCHANGED <<cfg, branches, worktrees, dirs, dirty, tmux, log, pane, ui, rt>>

TextNext ==
    \/ SlugifyText
    \/ SafeNameText
    \/ ClassifyError
    \/ ReadTimeout
    \/ CopyUntracked
    \/ LoadSessionTools

TextSpec == TextInit /\ [][TextNext]_vars

(* ------------------------------------------------------------------ *)
(* Properties                                                         *)
(* ------------------------------------------------------------------ *)

\* the positions of a command in the commands an operation ran
Positions(l, cmd) == {i \in 1..Len(l) : l[i].cmd = cmd}

Least(S) == CHOOSE i \in S : \A j \in S : i <= j

Greatest(S) == CHOOSE i \in S : \A j \in S : j <= i

\* the working copy an operation on a target acts on, seen before the operation
TargetBefore(target) == FindWorktree(World({}), target)

\* the failures whose text holds one of "timed out", "is locked",
\* "cannot remove", "cannot lock"
RemoveRetryKinds == {"timeout", "is-locked", "cannot-remove", "cannot-lock"}

\* the failures whose text holds one of "timed out", "already checked out",
\* "already exists", "already registered", "unable to create", "cannot lock"
AddRetryKinds ==
    {"timeout", "checked-out", "branch-exists", "path-exists", "registered", "unable-create",
     "cannot-lock"}

\* C1: Remove of a dirty working copy without force refuses with the
\* uncommitted-changes error; no session is killed, no `git worktree remove`
\* is run and no branch is deleted.
C1_DirtyRemoveRefuses ==
    [][(/\ last'.op = "Remove"
        /\ ~last'.force
        /\ TargetBefore(last'.target) # NoWorktree
        /\ TargetBefore(last'.target).path \in dirs \cap dirty)
       => /\ ~last'.ok
          /\ last'.err = "worktree has uncommitted changes"
          /\ \A i \in 1..Len(log') :
                 log'[i].cmd \notin {"kill-session", "worktree-remove", "branch-delete"}
          /\ tmux' = tmux
          /\ worktrees' = worktrees
          /\ branches' = branches]_vars

\* a Remove without force refused a dirty working copy whose session is alive
C1_Witness ==
    /\ last.op = "Remove"
    /\ ~last.force
    /\ last.err = "worktree has uncommitted changes"
    /\ last.session \in DOMAIN tmux

\* the order of the commands of a Remove that ran `git worktree remove`
RemoveOrder(l, sessionAlive, res) ==
    LET removes == Positions(l, "worktree-remove")
        kills == Positions(l, "kill-session")
        prunes == Positions(l, "worktree-prune")
        first == Least(removes)
        second == Greatest(removes)
        killsBefore == {k \in kills : k < first}
    IN  /\ sessionAlive => Cardinality(killsBefore) = 1
        /\ ~sessionAlive => kills = {}
        /\ IF l[first].err \in RemoveRetryKinds
           THEN /\ Cardinality(removes) = 2
                /\ Cardinality(prunes) = 1
                /\ \A p \in prunes : first < p /\ p < second
                /\ IF sessionAlive /\ \E k \in killsBefore : l[k].err # ""
                   THEN /\ Cardinality(kills) = 2
                        /\ \A p \in prunes : \E k \in kills : p < k /\ k < second
                   ELSE kills = killsBefore
                /\ l[second].err # "" =>
                       /\ ~res.ok
                       /\ res.err = l[second].err
                       /\ second = Len(l)
                /\ l[second].err = "" =>
                       \A i \in (second + 1)..Len(l) : l[i].cmd = "branch-delete"
           ELSE /\ Cardinality(removes) = 1
                /\ prunes = {}
                /\ kills = killsBefore
                /\ l[first].err # "" => ~res.ok /\ res.err = l[first].err /\ first = Len(l)

\* C2: in a Remove that passes the dirty check the session is killed before
\* the first `git worktree remove`; after a retry-matching failure of that
\* remove come exactly one `git worktree prune`, a re-kill of the session if
\* it is still alive and exactly one more remove, in that order, and the
\* outcome of the second remove is final.
C2_RemoveOrder ==
    [][(last'.op = "Remove" /\ Positions(log', "worktree-remove") # {})
       => RemoveOrder(log', last'.session \in DOMAIN tmux, last')]_vars

\* a Remove whose first kill and first remove failed: prune, re-kill, remove
C2_Witness ==
    /\ last.op = "Remove"
    /\ Cardinality(Positions(log, "worktree-remove")) = 2
    /\ Cardinality(Positions(log, "kill-session")) = 2
    /\ Cardinality(Positions(log, "worktree-prune")) = 1
    /\ last.ok

\* C3: for a fixed repository, two working copies with distinct branches
\* have distinct session names.
C3_DistinctSessionNames ==
    \A a, b \in worktrees :
        a.branch # b.branch =>
            tmuxWorktreeSessionName(RepoRoot, a) # tmuxWorktreeSessionName(RepoRoot, b)

\* C4: after a successful StopAgent on a working copy whose agent window was
\* running, the session of the working copy still exists.
C4_StopAgentKeepsSession ==
    (last.op = "StopAgent" /\ last.ok /\ last.flag) => last.session \in DOMAIN tmux

\* the errors that come from a failure the environment injects
EnvironmentFaults == {"stat", "mkdir", "io", "timeout", "copy", "tmux"}

\* C5: NewWorktree{FromBranch: B}, called again when the working copy of B
\* is there from the first call, returns the same path and no error.
C5_FromBranchTwice ==
    [][(/\ last'.op = "NewWorktree"
        /\ last'.from # <<>>
        /\ \E wt \in worktrees :
               /\ wt.branch = last'.from
               /\ wt.path = WorktreePathFor(RepoRoot, last'.from)
               /\ wt.path \in dirs)
       => \/ last'.ok /\ last'.path = WorktreePathFor(RepoRoot, last'.from)
          \/ last'.err \in EnvironmentFaults]_vars

\* C6: when the branch or the target path exists already, NewWorktree on a
\* new branch (CreateWorktreeWithBranch) returns an error; no `git worktree
\* add` was run, no other command, and no directory was created.
C6_ErrorBeforeAdd ==
    [][(/\ last'.op = "NewWorktree"
        /\ last'.from = <<>>
        /\ last'.target # <<>>
        /\ \/ last'.target \in branches
           \/ WorktreePathFor(RepoRoot, last'.target) \in dirs)
       => /\ ~last'.ok
          /\ last'.err \in {"branch already exists", "target path already exists",
                            "base branch not found"}
          /\ log' = <<>>
          /\ dirs' = dirs
          /\ worktrees' = worktrees
          /\ branches' = branches]_vars

\* NewWorktree on a new branch found a directory in the place of the working copy
C6_Witness ==
    /\ last.op = "NewWorktree"
    /\ last.from = <<>>
    /\ last.err = "target path already exists"
    /\ last.target \notin branches
    /\ WorktreePathFor(RepoRoot, last.target) \in dirs

\* the order of the commands of an operation that ran `git worktree add`
AddOrder(l, res) ==
    LET adds == Positions(l, "worktree-add")
        prunes == Positions(l, "worktree-prune")
        first == Least(adds)
        second == Greatest(adds)
    IN  IF l[first].err \in AddRetryKinds
        THEN /\ Cardinality(adds) = 2
             /\ Cardinality(prunes) = 1
             /\ \A p \in prunes : first < p /\ p < second
             /\ l[second].err # "" =>
                    /\ ~res.ok
                    /\ res.err = l[second].err
                    /\ second = Len(l)
        ELSE /\ Cardinality(adds) = 1
             /\ prunes = {}
             /\ l[first].err # "" => ~res.ok /\ res.err = l[first].err /\ first = Len(l)

\* C7: one request runs `git worktree add` at most twice; the second attempt
\* happens only after a first failure that matches the add retry set, with a
\* `git worktree prune` between the two, and its result is returned.
C7_AddAtMostTwice ==
    [][(last'.op = "NewWorktree" /\ Positions(log', "worktree-add") # {})
       => AddOrder(log', last')]_vars

\* a NewWorktree whose first add failed and whose second add succeeded
C7_Witness ==
    /\ last.op = "NewWorktree"
    /\ last.ok
    /\ Cardinality(Positions(log, "worktree-add")) = 2
    /\ Cardinality(Positions(log, "worktree-prune")) = 1
    /\ log[Least(Positions(log, "worktree-add"))].err = "registered"

RetryKinds(cmd) ==
    IF cmd = "worktree-add" THEN AddRetryKinds
    ELSE IF cmd = "worktree-remove" THEN RemoveRetryKinds
    ELSE {}

\* C8: within an operation no command but `git worktree add` and `git
\* worktree remove` is run again after it failed, those two only after a
\* failure that matches their retry set, and every other failure ends the
\* operation with that error.
C8_NoOtherRetry ==
    [][/\ \A i, j \in 1..Len(log') :
              (i < j /\ log'[i].cmd = log'[j].cmd /\ log'[i].tgt = log'[j].tgt
                     /\ log'[i].err # "")
              => log'[i].err \in RetryKinds(log'[i].cmd)
       /\ \A i \in 1..Len(log') :
              (log'[i].err # "" /\ log'[i].err \notin RetryKinds(log'[i].cmd))
              => ~last'.ok /\ last'.err = log'[i].err /\ i = Len(log')]_vars

\* C9: but for the first failure of a retried add or remove, every failure
\* of a command an operation runs makes the operation return an error.
C9_NoSwallowedError ==
    [][\A i \in 1..Len(log') :
           log'[i].err # "" =>
               \/ ~last'.ok
               \/ /\ log'[i].err \in RetryKinds(log'[i].cmd)
                  /\ \E j \in (i + 1)..Len(log') : log'[j].cmd = log'[i].cmd]_vars

\* the windows of a name in a session
WindowsNamed(t, session, name) ==
    IF session \in DOMAIN t THEN {i \in 1..Len(t[session]) : t[session][i].name = name}
    ELSE {}

\* the commands before position i that created the window of command i
CreatedBefore(l, i) ==
    {j \in 1..(i - 1) : /\ l[j].cmd \in {"new-session", "new-window"}
                        /\ l[j].tgt = l[i].tgt
                        /\ l[j].err = ""}

\* C10: ensure-session and ensure-window run no create command for a session
\* or window that exists; after successful ensures there is exactly one
\* session, and in it one window, of a name.
C10_EnsureIdempotent ==
    [][/\ \A i \in 1..Len(log') :
              /\ log'[i].cmd = "new-session" => log'[i].tgt[1] \notin DOMAIN tmux
              /\ log'[i].cmd = "new-window" =>
                     /\ WindowsNamed(tmux, log'[i].tgt[1], log'[i].tgt[2]) = {}
                     /\ CreatedBefore(log', i) = {}
       /\ \A s \in DOMAIN tmux' : \A i \in 1..Len(tmux'[s]) :
              Cardinality(WindowsNamed(tmux', s, tmux'[s][i].name)) = 1
       /\ (last'.op \in {"Launch", "StartAgent"} /\ last'.ok) =>
              last'.session \in DOMAIN tmux'
       /\ (last'.op = "StartAgent" /\ last'.ok) =>
              Cardinality(WindowsNamed(tmux', last'.session,
                                       tmuxAgentWindowName(worktreeBranchOrName(
                                           TargetBefore(last'.target))))) = 1]_vars

\* a StartAgent that found the session and the agent window and created nothing
C10_Witness ==
    /\ last.op = "StartAgent"
    /\ last.ok
    /\ last.flag
    /\ Positions(log, "new-session") = {}
    /\ Positions(log, "new-window") = {}
    /\ last.session \in DOMAIN tmux

\* the name of the agent window of the working copy a target names
AgentWindowOf(target) == tmuxAgentWindowName(worktreeBranchOrName(TargetBefore(target)))

\* C11: after a successful StartAgent the session of the working copy exists
\* and holds exactly one agent window, which runs the configured agent
\* command; alreadyRunning is returned true exactly when the agent window
\* existed before the call.
C11_StartAgent ==
    [][(last'.op = "StartAgent" /\ last'.ok)
       => /\ last'.session \in DOMAIN tmux'
          /\ Cardinality(WindowsNamed(tmux', last'.session, AgentWindowOf(last'.target))) = 1
          /\ \A i \in WindowsNamed(tmux', last'.session, AgentWindowOf(last'.target)) :
                 tmux'[last'.session][i].panes[1].cmd = agentCommand
          /\ last'.flag = (WindowsNamed(tmux, last'.session, AgentWindowOf(last'.target)) # {})
          /\ last'.path = TargetBefore(last'.target).path]_vars

\* a StartAgent that added the agent window to a session that had none
C11_Witness ==
    /\ last.op = "StartAgent"
    /\ last.ok
    /\ ~last.flag
    /\ Positions(log, "new-session") = {}
    /\ Positions(log, "new-window") # {}

\* C12: Detach kills the session of the target if it exists and returns
\* wasAlive true exactly then; after a successful Detach the session is gone
\* and the working copy is still there; a Detach that finds no session
\* returns wasAlive false, no error, and runs no command.
C12_Detach ==
    [][last'.op = "Detach"
       => /\ last'.ok =>
                 /\ last'.flag = (last'.session \in DOMAIN tmux)
                 /\ last'.session \notin DOMAIN tmux'
                 /\ last'.path = TargetBefore(last'.target).path
          /\ (/\ TargetBefore(last'.target) # NoWorktree
              /\ hasTmux
              /\ last'.session \notin DOMAIN tmux)
             => last'.ok /\ ~last'.flag /\ log' = <<>>
          /\ last'.session \in DOMAIN tmux => Positions(log', "kill-session") # {}
          /\ worktrees' = worktrees
          /\ dirs' = dirs
          /\ branches' = branches
          /\ dirty' = dirty]_vars

\* a Detach that killed the session of a working copy
C12_Witness ==
    /\ last.op = "Detach"
    /\ last.ok
    /\ last.flag
    /\ last.session \notin DOMAIN tmux
    /\ \E wt \in worktrees : wt.branch = last.target

\* the window names a session is built with, after the one source that
\* the priority picks: structured windows, legacy layout, tool list
SourceWindowNames(branch) ==
    IF Len(cfg.Windows) > 0
    THEN [i \in 1..Len(cfg.Windows) |-> Take(OrDefault(cfg.Windows[i].Name, StrMain), 60)]
    ELSE IF RepoName(RepoRoot) \in DOMAIN cfg.SessionLayouts
            /\ Len(cfg.SessionLayouts[RepoName(RepoRoot)].Windows) > 0
    THEN [i \in 1..Len(cfg.SessionLayouts[RepoName(RepoRoot)].Windows) |->
              Take(OrDefault(cfg.SessionLayouts[RepoName(RepoRoot)].Windows[i].Name, StrMain), 60)]
    ELSE [i \in 1..Len(ToolWindows(branch)) |-> ToolWindows(branch)[i].Name]

\* C13: a session is built from exactly one source, the first there is of
\* structured windows, legacy layout and tool list: the windows of a newly
\* launched session are those of that source and no others.
C13_OneSource ==
    [][(/\ last'.op \in {"Launch", "Go"}
        /\ last'.ok
        /\ last'.session \notin DOMAIN tmux
        /\ last'.session \in DOMAIN tmux')
       => [i \in 1..Len(tmux'[last'.session]) |-> tmux'[last'.session][i].name]
              = SourceWindowNames(worktreeBranchOrName(TargetBefore(last'.target)))]_vars

\* a session launched from structured windows, with a legacy layout and a
\* tool list configured beside them
C13_Witness ==
    /\ last.op = "Launch"
    /\ last.ok
    /\ Len(cfg.Windows) > 0
    /\ DOMAIN cfg.SessionLayouts # {}
    /\ Len(cfg.SessionTools) > 0
    /\ last.session \in DOMAIN tmux
    /\ Len(tmux[last.session]) = Len(cfg.Windows)
    /\ Positions(log, "new-session") # {}

\* C16: when the copy of the untracked files fails, NewWorktree returns an
\* error, the working copy that was added stays registered and on disk, and
\* no session is launched.
C16_CopyFailureAborts ==
    [][(/\ last'.op = "NewWorktree"
        /\ \/ last'.err = "copy"
           \/ \E i \in Positions(log', "status-v2") : log'[i].err # "")
       => /\ ~last'.ok
          /\ \E i \in Positions(log', "worktree-add") : log'[i].err = ""
          /\ \E wt \in worktrees' :
                 /\ wt.branch = last'.target
                 /\ wt.path \in dirs'
          /\ tmux' = tmux
          /\ \A i \in 1..Len(log') :
                 log'[i].cmd \in {"worktree-add", "worktree-prune", "status-v2"}]_vars

\* a NewWorktree asked to launch whose copy failed half way
C16_Witness ==
    /\ last.op = "NewWorktree"
    /\ last.launch
    /\ last.err = "copy"
    /\ \E wt \in worktrees : wt.branch = last.target /\ wt.path \in dirs \cap dirty

\* the tools of the configuration that name lazygit, and those that name nvim
ToolsNamed(names) ==
    {i \in 1..Len(cfg.SessionTools) : ToLower(TrimSpace(cfg.SessionTools[i])) \in names}

\* C14: in tool-list mode a lazygit or nvim/neovim entry gives a window
\* exactly when its binary is on PATH; when every tool is filtered out the
\* session is built with one window that runs the login shell, and a
\* session that was built has at least one window.
C14_ToolFiltering ==
    /\ last.op = "tmuxConfiguredWindows"
       => /\ (\E i \in 1..Len(last.configured) : last.configured[i].Command = StrLazygitCmd)
                 <=> (ToolsNamed({StrLazygit}) # {} /\ StrLazygit \in cfg.installed)
          /\ (\E i \in 1..Len(last.configured) : last.configured[i].Command = StrNvimCmd)
                 <=> (ToolsNamed({StrNvim, StrNeovim}) # {} /\ StrNvim \in cfg.installed)
          /\ Len(last.windows) >= 1
          /\ last.configured = <<>>
                 => last.windows = <<[Name |-> tmuxWindowName(last.branch),
                                      Command |-> defaultShellCommand]>>
    /\ (last.op = "tmuxEnsureWorktreeWindow" /\ last.session \in DOMAIN tmux)
       => /\ Len(tmux[last.session]) >= 1
          /\ (\A i \in 1..Len(cfg.SessionTools) :
                  /\ i \in ToolsNamed({StrLazygit, StrNvim, StrNeovim})
                  /\ i \in ToolsNamed({StrLazygit}) => StrLazygit \notin cfg.installed
                  /\ i \in ToolsNamed({StrNvim, StrNeovim}) => StrNvim \notin cfg.installed)
                 => /\ Len(tmux[last.session]) = 1
                    /\ tmux[last.session][1].name = tmuxWindowName(last.branch)
                    /\ tmux[last.session][1].panes[1].cmd = defaultShellCommand

\* a session built from a tool list of which every tool was filtered out
C14_Witness ==
    /\ last.op = "tmuxEnsureWorktreeWindow"
    /\ Len(cfg.SessionTools) = MaxTools
    /\ ToolsNamed({StrLazygit}) # {}
    /\ ToolsNamed({StrNeovim}) # {}
    /\ StrLazygit \in cfg.installed
    /\ StrNvim \notin cfg.installed
    /\ ToolsNamed({StrLazygit, StrNeovim}) = 1..MaxTools
    /\ last.session \in DOMAIN tmux

\* the names before position i of a sequence of names
NamesBefore(names, i) == {names[j] : j \in 1..(i - 1)}

\* C15: the window names made from one tool list are pairwise distinct and
\* at most 60 characters long; a name that is free is used as it is, cut to
\* 60 characters, and a taken one gets the suffix -k of the least k >= 2
\* that is free, which is found within as many steps as there are windows.
C15_WindowNamesDistinct ==
    last.op = "tmuxConfiguredWindows"
    => LET names == [i \in 1..Len(last.configured) |-> last.configured[i].Name]
           cut(i) == Take(OrDefault(last.bases[i], StrMain), 60)
       IN  /\ Len(last.bases) = Len(names)
           /\ \A i \in 1..Len(names) :
                  /\ Len(names[i]) \in 1..60
                  /\ \A j \in 1..Len(names) : i # j => names[i] # names[j]
                  /\ IF cut(i) \notin NamesBefore(names, i)
                     THEN names[i] = cut(i)
                     ELSE \E k \in 2..(i + 1) :
                              /\ names[i] = WindowNameCandidate(cut(i), k)
                              /\ \A l \in 2..(k - 1) :
                                     WindowNameCandidate(cut(i), l) \in NamesBefore(names, i)

\* three windows of one long executable name: the second and the third are
\* cut to make room for the suffixes -2 and -3
C15_Witness ==
    /\ last.op = "tmuxConfiguredWindows"
    /\ Len(last.configured) = 3
    /\ Len(last.configured[1].Name) = 60
    /\ last.configured[2].Name = Take(last.configured[1].Name, 58) \o <<"-", "2">>
    /\ last.configured[3].Name = Take(last.configured[1].Name, 58) \o <<"-", "3">>

\* C17: NewWorktree takes the branch name from the explicit branch if there
\* is one, else from type and name through the slugifier if they are given,
\* else from fromBranch; it uses the existing-branch mode only when the name
\* is taken from fromBranch.
C17_BranchPrecedence ==
    last.op = "NewWorktreeBranch"
    => LET opts == last.opts
           out == last.out
       IN  IF TrimSpace(opts.Branch) # <<>>
           THEN out.ok /\ out.branch = TrimSpace(opts.Branch) /\ ~out.isExisting
           ELSE IF opts.Type # <<>> /\ opts.Name # <<>>
           THEN /\ out.ok = MakeBranchName(opts.Type, opts.Name).ok
                /\ out.ok => out.branch = MakeBranchName(opts.Type, opts.Name).branch
                /\ out.ok => ~out.isExisting
           ELSE IF opts.FromBranch # <<>>
           THEN out.ok /\ out.branch = opts.FromBranch /\ out.isExisting
           ELSE ~out.ok

\* the working copies left on a branch
LeftOn(wts, branch) == {wt \in wts : wt.branch = branch}

\* C18: a Remove with deleteBranch deletes the branch only if no working
\* copy that is left has it checked out; when one has and git has removed
\* the target, git branch is not run and Remove returns no error; when none
\* has, git branch is run.
C18_DeleteBranchOnlyIfFree ==
    [][(last'.op = "Remove" /\ last'.del)
       => /\ (TargetBefore(last'.target).branch \in branches \ branches')
                 => LeftOn(worktrees', TargetBefore(last'.target).branch) = {}
          /\ (/\ \E i \in Positions(log', "worktree-remove") : log'[i].err = ""
              /\ TargetBefore(last'.target) \in worktrees \ worktrees'
              /\ LeftOn(worktrees', TargetBefore(last'.target).branch) # {})
                 => /\ last'.ok
                    /\ TargetBefore(last'.target).branch \in branches'
                    /\ Positions(log', "branch-delete") = {}
          /\ (/\ \E i \in Positions(log', "worktree-remove") : log'[i].err = ""
              /\ TargetBefore(last'.target) \in worktrees \ worktrees'
              /\ LeftOn(worktrees', TargetBefore(last'.target).branch) = {})
                 => Positions(log', "branch-delete") # {}]_vars

\* a Remove with deleteBranch of one of two working copies of a branch
C18_Witness ==
    /\ last.op = "Remove"
    /\ last.del
    /\ last.ok
    /\ last.target \in branches
    /\ LeftOn(worktrees, last.target) # {}
    /\ Positions(log, "worktree-remove") # {}
    /\ Len(last.warnings) > 0

\* the last tick captured the pane as it is now
Fresh == ui.tick = "read"

\* the rows of the pane with colours stripped and spaces trimmed, the
\* non-empty ones only
PlainRows == SelectSeq([i \in 1..Len(pane.rows) |-> TrimSpace(stripANSI(pane.rows[i]))],
                       LAMBDA row : row # <<>>)

\* the rows that are ready markers: a prompt token alone, a prompt with the
\* cursor block, or a row that holds one of the phrases
MarkerRow(row) ==
    \/ row \in PromptTokens
    \/ (\E token \in PromptTokens : HasPrefix(row, token \o <<" ">>)) /\ Contains(row, <<"U+2588">>)
    \/ \E phrase \in {PhraseForShortcuts, PhraseContextLeft, PhraseAwaitingYourInput,
                      PhraseWaitingForYourInput, PhraseReadyForYourNextInstruction,
                      PhraseWhatWouldYouLikeToDoNext, PhraseEnterYourPrompt} :
           Contains(ToLower(row), phrase)

\* C19: when the last non-empty row of the agent pane is a ready marker the
\* agent is classified ready; once keys were sent, it is classified busy
\* as long as the agent has printed no new ready marker.
C19_BusyAfterKeys ==
    Fresh => /\ (PlainRows # <<>> /\ MarkerRow(PlainRows[Len(PlainRows)]))
                 => ui.agentPrompt = "ready"
             /\ pane.typed => ui.agentPrompt = "busy"

DocumentedOnAdd ==
    {<<"t", "i", "m", "e", "o", "u", "t">>, <<"t", "i", "m", "e", "d", " ", "o", "u", "t">>,
     <<"a", "l", "r", "e", "a", "d", "y", " ", "c", "h", "e", "c", "k", "e", "d", " ", "o", "u", "t">>,
     <<"a", "l", "r", "e", "a", "d", "y", " ", "e", "x", "i", "s", "t", "s">>,
     <<"a", "l", "r", "e", "a", "d", "y", " ", "r", "e", "g", "i", "s", "t", "e", "r", "e", "d">>,
     <<"c", "a", "n", "n", "o", "t", " ", "l", "o", "c", "k">>,
     <<"c", "a", "n", "n", "o", "t", " ", "c", "r", "e", "a", "t", "e">>}

DocumentedOnRemove ==
    {<<"t", "i", "m", "e", "o", "u", "t">>, <<"t", "i", "m", "e", "d", " ", "o", "u", "t">>,
     <<"i", "s", " ", "l", "o", "c", "k", "e", "d">>, <<"c", "a", "n", "n", "o", "t", " ", "r", "e", "m", "o", "v", "e">>,
     <<"c", "a", "n", "n", "o", "t", " ", "l", "o", "c", "k">>}

Documented(kind, set) == \E d \in set : Contains(ToLower(ErrText(kind)), d)

\* C26: an error text makes `git worktree add` (remove) retry exactly when it
\* contains one of the substrings documented for add (remove).
C26_RetrySet ==
    last.op = "shouldRetry" =>
        /\ last.add = Documented(last.kind, DocumentedOnAdd)
        /\ last.remove = Documented(last.kind, DocumentedOnRemove)

\* the characters allowed in a slug, no doubled separator, no separator at an end
SlugClosed(slug) ==
    /\ slug # <<>>
    /\ \A i \in 1..Len(slug) : slug[i] \in SlugChars
    /\ ~Contains(slug, <<"-", "-">>)
    /\ ~Contains(slug, <<"/", "/">>)
    /\ Head(slug) \notin {"-", "/"}
    /\ slug[Len(slug)] \notin {"-", "/"}

\* C27: when Slugify accepts a text, Slugify of the result is the result, and
\* the result is not empty, holds only a-z, 0-9, / and -, holds no -- and no
\* //, and neither starts nor ends with - or /.
C27_SlugifyClosed ==
    (last.op = "Slugify" /\ last.out.ok) =>
        /\ last.again = last.out
        /\ SlugClosed(last.out.slug)

C27_Witness ==
    /\ last.op = "Slugify"
    /\ last.out.ok
    /\ Contains(last.input, <<"_", "-">>)
    /\ Contains(last.input, <<"A">>)
    /\ last.again = last.out

\* the characters of the inputs that safeName replaces or trims
OutsideSafe == (TextChars \ SafeChars) \cup {"-"}

\* nothing of the text is left after replacing, collapsing and trimming
CleanedEmpty(x) == \A i \in 1..Len(x) : x[i] \in OutsideSafe

SafeClosed(name) ==
    /\ \A i \in 1..Len(name) : name[i] \in SafeChars
    /\ ~Contains(name, <<"-", "-">>)
    /\ name # <<>> => (Head(name) # "-" /\ name[Len(name)] # "-")

\* C28 as stated: safeName(x) holds only A-Z, a-z, 0-9, ., _ and -, holds no
\* --, neither starts nor ends with -, and is "default" exactly when the
\* cleaned text is empty.
C28_SafeNameClosure ==
    last.op = "safeName" =>
        /\ SafeClosed(last.out)
        /\ (last.out = StrDefault) <=> CleanedEmpty(last.input)

\* C28 amended: safeName(x) holds only A-Z, a-z, 0-9, ., _ and -, holds no
\* --, neither starts nor ends with -, is "default" when the cleaned text is
\* empty, and otherwise is the cleaned text, which is "default" only when the
\* text x without the replaced characters at its ends is the word default.
C28_SafeNameDefault ==
    last.op = "safeName" =>
        /\ SafeClosed(last.out)
        /\ last.out # <<>>
        /\ CleanedEmpty(last.input) => last.out = StrDefault
        /\ (last.out = StrDefault) <=>
               (CleanedEmpty(last.input) \/ Trim(last.input, OutsideSafe) = StrDefault)

C28_Witness ==
    /\ last.op = "safeName"
    /\ last.input # <<>>
    /\ CleanedEmpty(last.input)
    /\ last.out = StrDefault

\* C29: the timeout of `git worktree add` and `git worktree remove` is
\* between 5 and 600 seconds: the value 2 gives 5, 10000 gives 600, 120 gives
\* 120, and no value gives 45.
C29_TimeoutClamp ==
    last.op = "gitWorktreeCommandTimeout" =>
        /\ last.out \in 5..600
        /\ last.env = <<"2">> => last.out = 5
        /\ last.env = <<"1", "0", "0", "0", "0">> => last.out = 600
        /\ last.env = <<"1", "2", "0">> => last.out = 120
        /\ last.env = <<>> => last.out = 45

C29_Witness ==
    /\ last.op = "gitWorktreeCommandTimeout"
    /\ last.env = <<"2">>
    /\ last.out = 5

\* C30: with copy_untracked_exclude = [build, dist/**, *.log, tmp/], after the
\* untracked copy the new working copy holds none of build, build/output/app,
\* dist/assets/x, tmp/cache and logs/app.log, and holds notes/logs.txt,
\* src/build-ing and builds/app when the source tree holds them.
C30_CopyExclusion ==
    (last.op = "CopyUntrackedAndIgnored" /\ last.exclude = CopyExclude) =>
        /\ last.dest \cap {<<"build">>, <<"build", "output", "app">>, <<"dist", "assets", "x">>,
                           <<"tmp", "cache">>, <<"logs", "app.log">>} = {}
        /\ \A p \in {<<"notes", "logs.txt">>, <<"src", "build-ing">>, <<"builds", "app">>} :
               p \in last.source => p \in last.dest

\* the entries of a Go map
Size(m) == Cardinality(DOMAIN m)

\* C25: a lookup (a step that leaves the clock alone) that does not run git
\* returns an entry that is at most its TTL old (900 ms for a file list, 2 s
\* for a patch); a lookup that stores an entry in a map that holds its cap
\* leaves the new entry alone in the map; and the file-list cache never holds
\* more than 128 entries, the patch cache never more than 512.
C25_CacheExpiry ==
    [][/\ Size(ui'.diffCache) <= 128
       /\ Size(ui'.patchCache) <= 512
       /\ (rt' = rt /\ last'.op = "cachedDiffFiles" /\ ~last'.ran) =>
              /\ last'.key \in DOMAIN ui.diffCache
              /\ last'.shown = ui.diffCache[last'.key].files
              /\ rt.now - ui.diffCache[last'.key].fetchedAt <= 900
       /\ (rt' = rt /\ last'.op = "cachedFileDiff" /\ ~last'.ran) =>
              /\ last'.key \in DOMAIN ui.patchCache
              /\ last'.shown = ui.patchCache[last'.key].text
              /\ rt.now - ui.patchCache[last'.key].fetchedAt <= 2000
       /\ (ui'.diffCache # ui.diffCache /\ Size(ui.diffCache) = 128 /\ last'.key \notin DOMAIN ui.diffCache) =>
              DOMAIN ui'.diffCache = {last'.key}
       /\ (ui'.patchCache # ui.patchCache /\ Size(ui.patchCache) = 512 /\ last'.key \notin DOMAIN ui.patchCache) =>
              DOMAIN ui'.patchCache = {last'.key}]_vars

\* a file list is stored in a full map, and is alone in it afterwards
C25_Witness ==
    /\ last.op = "cachedDiffFiles"
    /\ last.ran
    /\ last.ok
    /\ last.before = 128
    /\ DOMAIN ui.diffCache = {last.key}

\* the threads that are goroutines started by the dashboard
Goroutines == {"create", "delete", "progress", "live", "update"}

\* the steps that run a callback taken from the UI event queue
QueuedOps == {"created", "removed", "live", "render", "update"}

IsPrefix(s, t) == Len(s) <= Len(t) /\ SubSeq(t, 1, Len(s)) = s

\* C21: the dashboard state and its caches are read and written by the UI
\* thread only; a goroutine step leaves the dashboard as it is and at most
\* appends callbacks to the UI event queue, and a result of a goroutine changes
\* the dashboard in the step that takes its callback from the head of the queue.
C21_UiThreadOwns ==
    [][/\ (ui' # ui \/ last'.touched # {}) => last'.by = "ui"
       /\ last'.by \in Goroutines => ui' = ui /\ IsPrefix(rt.queue, rt'.queue)
       /\ (last'.by = "ui" /\ last'.op \in QueuedOps) =>
              /\ rt.queue # <<>>
              /\ Head(rt.queue).op = last'.op
              /\ rt'.queue = Tail(rt.queue)]_vars

\* the working copy the create goroutine made is on the list, put there by
\* the callback the UI thread ran
C21_Witness ==
    /\ last.by = "ui" /\ last.op = "created" /\ last.replaced
    /\ rt.job = NoJob
    /\ NewCopy \in {ui.items[i] : i \in 1..Len(ui.items)}

\* C24: whenever the dashboard replaces its list by a fresh listing, no cache
\* entry obtained before is served after it: the step that replaces the list
\* answers nothing from the caches and leaves in them only what it fetched
\* itself.
C24_InvalidatedOnReplace ==
    [][last'.replaced =>
           /\ last'.served = NoKeys
           /\ DOMAIN ui'.diffCache \subseteq last'.fetched.files
           /\ DOMAIN ui'.patchCache \subseteq last'.fetched.patches]_vars

\* what holds of the refresh key alone
RefreshInvalidates ==
    [][(last'.replaced /\ last'.op = "refresh") =>
           /\ last'.served = NoKeys
           /\ DOMAIN ui'.diffCache \subseteq last'.fetched.files
           /\ DOMAIN ui'.patchCache \subseteq last'.fetched.patches]_vars

\* C22: no thread holds debugLogMu or the mutex of the progress modal while it
\* starts an external binary or waits for one.
C22_NoLockAcrossSubprocess ==
    \A t \in Threads :
        (rt.pc[t].at \in {"exec", "wait"} \/ t \in rt.procs) =>
            rt.debugLogMu # t /\ rt.mu # t

\* the goroutine waits for its binary, of which it has logged the start, while
\* the UI thread holds debugLogMu and the ticker holds the modal's mutex
C22_Witness ==
    /\ rt.pc["create"].at = "wait" /\ "create" \in rt.procs
    /\ Piece("create", 1, 2) \in {rt.file[i] : i \in 1..Len(rt.file)}
    /\ rt.debugLogMu = "ui"
    /\ rt.mu = "progress"

\* the pieces of a file are whole lines one after the other, but for the last
\* one, which may be a line that holder is still writing
WholeLines(f, holder) ==
    \A i \in 1..Len(f) :
        /\ f[i][3] = 1 =>
               IF i = Len(f) THEN f[i][1] = holder ELSE f[i + 1] = Piece(f[i][1], f[i][2], 2)
        /\ f[i][3] = 2 => i > 1 /\ f[i - 1] = Piece(f[i][1], f[i][2], 1)

\* C23: debugLogf calls of different goroutines never interleave: every line
\* of the debug log comes whole from one call, and a line that is half written
\* is the line of the thread that holds debugLogMu.
C23_LinesIntact ==
    /\ WholeLines(rt.file, rt.debugLogMu)
    /\ \A t \in LogThreads :
           rt.pc[t].at \in {"OpenFile", "WriteString", "written", "Close"} => rt.debugLogMu = t

\* the UI thread has written half of a line after a line of the goroutine,
\* and the goroutine waits for the mutex with its next line
C23_Witness ==
    /\ rt.debugLogMu = "ui"
    /\ rt.pc["ui"].at = "written"
    /\ rt.pc["create"].at = "Lock"
    /\ Len(rt.file) >= 3
    /\ rt.file[1][1] = "create"

\* C31: the session tools of a loaded configuration are deduplicated by
\* position: no tool appears twice.
C31_ToolsDeduplicated ==
    last.op = "LoadConfig" =>
        \A i, j \in 1..Len(last.out) : last.out[i] = last.out[j] => i = j

\* the configured structured windows all exist in the session
WindowsBuilt(t, session) ==
    /\ session \in DOMAIN t
    /\ \A i \in 1..Len(cfg.Windows) :
           WindowsNamed(t, session, trimTmuxWindowName(cfg.Windows[i].Name)) # {}

\* C32: launching a structured windows layout is idempotent: when the session
\* already exists every ensure call is a no-op and no pane is split, so the
\* launch leaves the windows and panes of the session as they were.
C32_LaunchIdempotent ==
    [][(/\ last'.op = "Launch"
        /\ Len(cfg.Windows) > 0
        /\ last'.session \in DOMAIN tmux)
       => /\ tmux' = tmux
          /\ Positions(log', "new-window") = {}
          /\ Positions(log', "split-window") = {}]_vars

\* a launch that finds the session with every configured window in it, as a
\* successful launch leaves it, changes nothing in tmux
LaunchOnBuiltSession ==
    [][/\ (last'.op = "Launch" /\ Len(cfg.Windows) > 0 /\ last'.ok)
          => WindowsBuilt(tmux', last'.session)
       /\ (last'.op = "Launch" /\ Len(cfg.Windows) > 0 /\ WindowsBuilt(tmux, last'.session))
          => tmux' = tmux]_vars

\* the legacy layout of the repository is what a launch builds the session from
LegacyInEffect ==
    /\ Len(cfg.Windows) = 0
    /\ RepoName(RepoRoot) \in DOMAIN cfg.SessionLayouts
    /\ Len(cfg.SessionLayouts[RepoName(RepoRoot)].Windows) > 0

\* C33: with a legacy layout every configured pane command is started exactly
\* once in a session: a launch that creates the session leaves one pane per
\* configured pane, running its command and with nothing typed into it, and a
\* launch on a session that exists adds no pane and sends no command into a pane.
C33_LegacyPanesOnce ==
    [][(last'.op = "Launch" /\ LegacyInEffect) =>
          /\ (last'.ok /\ last'.session \notin DOMAIN tmux) =>
                 \A s \in DOMAIN tmux' : \A i \in 1..Len(tmux'[s]) :
                     \A j \in 1..Len(tmux'[s][i].panes) : tmux'[s][i].panes[j].keys = <<>>
          /\ last'.session \in DOMAIN tmux =>
                 /\ Positions(log', "split-window") = {}
                 /\ Positions(log', "send-keys") = {}
                 /\ tmux' = tmux]_vars

\* C34: Remove is all-or-nothing: when it returns an error the working copy it
\* was called for is still registered, and its session, if there was one
\* before the call, is still alive.
C34_RemoveAllOrNothing ==
    [][(/\ last'.op = "Remove"
        /\ ~last'.ok
        /\ TargetBefore(last'.target) # NoWorktree)
       => /\ TargetBefore(last'.target) \in worktrees'
          /\ last'.session \in DOMAIN tmux => last'.session \in DOMAIN tmux']_vars

(* ------------------------------------------------------------------ *)
(* Lookup: FindWorktree over the working copies git lists              *)
(* ------------------------------------------------------------------ *)

\* the paths and the branches (<<>>: detached) of the linked working copies
FindPaths == {<<"/", "a">>, <<"/", "b">>, <<"/", "r", "-", "a">>}

FindBranches == {<<>>, <<"a">>, <<"b">>, <<"r", "-", "a">>}

\* what `git worktree list` can print beside the main working copy: no path
\* twice and no branch checked out twice
LinkedSets ==
    {set \in SUBSET {[path |-> p, branch |-> b] : p \in FindPaths, b \in FindBranches} :
        /\ Cardinality(set) <= 2
        /\ \A x, y \in set : x # y => x.path # y.path /\ (x.branch = <<>> \/ x.branch # y.branch)}

FindTargets == FindPaths \cup FindBranches

FindInit ==
    /\ cfg = BaseConfig(<<StrAgent>>, {StrTmux, StrCodex}, FALSE)
    /\ \E linked \in LinkedSets :
           /\ worktrees = {[path |-> RepoRoot, branch |-> StrMain]} \cup linked
           /\ branches = ({StrMain} \cup {wt.branch : wt \in linked}) \ {<<>>}
           /\ dirs = UNION {Ancestors(wt.path) : wt \in linked} \cup Ancestors(RepoRoot)
    /\ dirty = {}
    /\ tmux = EmptyMap
    /\ log = <<>>
    /\ last = Idle
    /\ pane = NoPane
    /\ ui = NewUi
    /\ rt = NoRuntime

\* FindWorktree is called, as Remove, Detach and StopAgent call it
Find ==
    /\ last.op = ""
    /\ \E target \in FindTargets :
           last' = [Idle EXCEPT !.op = "FindWorktree", !.target = target,
                                !.ok = FindWorktree(World({}), target) # NoWorktree,
                                !.path = FindWorktree(World({}), target).path,
                                !.branch = FindWorktree(World({}), target).branch]
    /\ UNCHANGED <<cfg, branches, worktrees, dirs, dirty, tmux, log, pane, ui, rt>>

FindNext == Find

FindSpec == FindInit /\ [][FindNext]_vars

\* C35: a target that is the branch of a working copy resolves to that working
\* copy, never to another one whose path or path base name equals the target.
C35_BranchMatchWins ==
    (/\ last.op = "FindWorktree"
     /\ last.target # <<>>
     /\ \E wt \in worktrees : wt.branch = last.target)
        => last.ok /\ last.branch = last.target

(* ------------------------------------------------------------------ *)
(* Race: two sprout processes launching the same working copy          *)
(* ------------------------------------------------------------------ *)

Procs == {"p1", "p2"}

RaceBranch == BranchFixDashX

RacePath == WorktreePathFor(RepoRoot, RaceBranch)

RaceSession == tmuxWorktreeSessionNameFrom(RepoRoot, RaceBranch, RacePath)

\* the windows of the tool list, which both processes ensure
RaceWindows == ToolWindows(RaceBranch)

\* every process is about to call tmuxEnsureWorktreeWindow; k is the window
\* its loop is at
RaceInit ==
    /\ cfg \in {BaseConfig(tools, {StrTmux, StrCodex, StrNvim}, FALSE) :
                   tools \in {<<StrAgent, StrLazygit, StrNvim>>, <<StrNvim, StrAgent>>}}
    /\ branches = {StrMain, RaceBranch}
    /\ worktrees = {[path |-> RepoRoot, branch |-> StrMain],
                    [path |-> RacePath, branch |-> RaceBranch]}
    /\ dirs = Ancestors(RepoRoot) \cup Ancestors(RacePath)
    /\ dirty = {}
    /\ tmux = EmptyMap
    /\ log = <<>>
    /\ last = Idle
    /\ pane = NoPane
    /\ ui = NewUi
    /\ rt = [now |-> 0, pc |-> [p \in Procs |-> "begin"], k |-> [p \in Procs |-> 1]]

\* a step of process p: it goes on at pc with its loop at window k, and tmux is
\* what its command left
RaceStep(p, pc, k, t) ==
    /\ rt' = [rt EXCEPT !.pc[p] = pc, !.k[p] = k]
    /\ tmux' = t
    /\ UNCHANGED <<cfg, branches, worktrees, dirs, dirty, log, last, pane, ui>>

\* the loop over the windows goes on at window k, or the launch is done
AtWindow(k) == IF k > Len(RaceWindows) THEN "done" ELSE "window"

\* tmuxEnsureWorktreeWindow: `if !m.tmuxHasSession(session)`
LaunchHasSession(p) ==
    /\ rt.pc[p] = "begin"
    /\ RaceStep(p, IF tmuxHasSession(World({}), RaceSession) THEN AtWindow(1) ELSE "ensure",
                1, tmux)

\* tmuxEnsureSession: `if m.tmuxHasSession(session) { return nil }`
EnsureSessionCheck(p) ==
    /\ rt.pc[p] = "ensure"
    /\ RaceStep(p, IF tmuxHasSession(World({}), RaceSession) THEN AtWindow(1)
                   ELSE "new-session",
                1, tmux)

\* where a process goes after a create command that ended in world w
AfterCreate(w, command, remain, next) ==
    IF ~w.ok THEN "failed"
    ELSE IF commandShouldRemainOnExit(command) THEN remain
    ELSE next

\* tmuxEnsureSession: tmux new-session, which fails when the session exists
EnsureSessionCreate(p) ==
    /\ rt.pc[p] = "new-session"
    /\ \E w \in {TmuxNewSession(World({}), RaceSession,
                                OrDefault(RaceWindows[1].Name, StrMain),
                                OrDefault(RaceWindows[1].Command, defaultShellCommand))} :
           RaceStep(p, AfterCreate(w, OrDefault(RaceWindows[1].Command, defaultShellCommand),
                                   "remain-session", AtWindow(1)),
                    1, w.tmux)

\* tmuxEnsureSession: tmuxSetRemainOnExit
EnsureSessionRemain(p) ==
    /\ rt.pc[p] = "remain-session"
    /\ \E w \in {tmuxSetRemainOnExit(World({}), RaceSession,
                                     OrDefault(RaceWindows[1].Name, StrMain))} :
           RaceStep(p, IF w.ok THEN AtWindow(1) ELSE "failed", 1, w.tmux)

\* tmuxEnsureWindow: `if m.tmuxWindowExists(session, window) { return nil }`
EnsureWindowCheck(p) ==
    /\ rt.pc[p] = "window"
    /\ IF tmuxWindowExists(World({}), RaceSession, RaceWindows[rt.k[p]].Name)
       THEN RaceStep(p, AtWindow(rt.k[p] + 1), rt.k[p] + 1, tmux)
       ELSE RaceStep(p, "new-window", rt.k[p], tmux)

\* tmuxEnsureWindow: tmux new-window, which tmux runs whatever the windows
\* of the session are called
EnsureWindowCreate(p) ==
    /\ rt.pc[p] = "new-window"
    /\ \E w \in {TmuxNewWindow(World({}), RaceSession, RaceWindows[rt.k[p]].Name,
                               OrDefault(RaceWindows[rt.k[p]].Command, defaultShellCommand))} :
           IF AfterCreate(w, OrDefault(RaceWindows[rt.k[p]].Command, defaultShellCommand),
                          "remain-window", "next") = "next"
           THEN RaceStep(p, AtWindow(rt.k[p] + 1), rt.k[p] + 1, w.tmux)
           ELSE RaceStep(p, AfterCreate(w, OrDefault(RaceWindows[rt.k[p]].Command,
                                                     defaultShellCommand),
                                        "remain-window", "next"),
                         rt.k[p], w.tmux)

\* tmuxEnsureWindow: tmuxSetRemainOnExit
EnsureWindowRemain(p) ==
    /\ rt.pc[p] = "remain-window"
    /\ \E w \in {tmuxSetRemainOnExit(World({}), RaceSession, RaceWindows[rt.k[p]].Name)} :
           IF w.ok THEN RaceStep(p, AtWindow(rt.k[p] + 1), rt.k[p] + 1, w.tmux)
           ELSE RaceStep(p, "failed", rt.k[p], w.tmux)

RaceNext ==
    \/ \E p \in Procs : LaunchHasSession(p)
    \/ \E p \in Procs : EnsureSessionCheck(p)
    \/ \E p \in Procs : EnsureSessionCreate(p)
    \/ \E p \in Procs : EnsureSessionRemain(p)
    \/ \E p \in Procs : EnsureWindowCheck(p)
    \/ \E p \in Procs : EnsureWindowCreate(p)
    \/ \E p \in Procs : EnsureWindowRemain(p)

RaceSpec == RaceInit /\ [][RaceNext]_vars

\* C36: when two processes launch the same working copy at once, the checks
\* and creates of ensure-session and ensure-window leave one session, and in
\* it at most one window of every configured window name.
C36_OneWindowPerName ==
    /\ (\A p \in Procs : rt.pc[p] \in {"done", "failed"}) => RaceSession \in DOMAIN tmux
    /\ \A k \in 1..Len(RaceWindows) :
           Cardinality(WindowsNamed(tmux, RaceSession, RaceWindows[k].Name)) <= 1

(* ------------------------------------------------------------------ *)
(* Create: two NewWorktree calls for one new branch                    *)
(* ------------------------------------------------------------------ *)

\* the branch both calls create, its working copy, and another working copy
\* of the repository
NewBranch == BranchFixDashX

NewPath == WorktreePathFor(RepoRoot, NewBranch)

OtherCopy == [path |-> WorktreePathFor(RepoRoot, StrDev), branch |-> StrDev]

\* the other working copy is absent, present, or registered with its
\* directory deleted; every process is about to call CreateWorktreeWithBranch
CreateInit ==
    /\ cfg = BaseConfig(<<StrAgent>>, {StrTmux, StrCodex}, FALSE)
    /\ \E other \in {"none", "present", "stale"} :
           /\ branches = {StrMain} \cup (IF other = "none" THEN {} ELSE {OtherCopy.branch})
           /\ worktrees = {[path |-> RepoRoot, branch |-> StrMain]}
                              \cup (IF other = "none" THEN {} ELSE {OtherCopy})
           /\ dirs = Ancestors(RepoRoot)
                         \cup (IF other = "present" THEN Ancestors(OtherCopy.path) ELSE {})
    /\ dirty = {}
    /\ tmux = EmptyMap
    /\ log = <<>>
    /\ last = Idle
    /\ pane = NoPane
    /\ ui = NewUi
    /\ rt = [now |-> 0, pc |-> [p \in Procs |-> "begin"], err |-> [p \in Procs |-> ""],
             retried |-> [p \in Procs |-> FALSE]]

\* a step of process p: it goes on at pc (with err what it returns, if it
\* returns), and the repository is as world w has it
CreateStep(p, pc, err, retried, w) ==
    /\ rt' = [rt EXCEPT !.pc[p] = pc, !.err[p] = err, !.retried[p] = retried]
    /\ branches' = w.branches
    /\ worktrees' = w.worktrees
    /\ dirs' = w.dirs
    /\ UNCHANGED <<cfg, dirty, tmux, log, last, pane, ui>>

\* CreateWorktreeWithBranch: `if m.BranchExists(repoRoot, branch)`
CreateBranchCheck(p) ==
    /\ rt.pc[p] = "begin"
    /\ IF BranchExists(World({}), NewBranch)
       THEN CreateStep(p, "failed", "branch already exists", FALSE, World({}))
       ELSE CreateStep(p, "stat", "", FALSE, World({}))

\* CreateWorktreeWithBranch: os.Stat(worktreePath)
CreateStat(p) ==
    /\ rt.pc[p] = "stat"
    /\ IF NewPath \in dirs
       THEN CreateStep(p, "failed", "target path already exists", FALSE, World({}))
       ELSE CreateStep(p, "mkdir", "", FALSE, World({}))

\* CreateWorktreeWithBranch: os.MkdirAll(filepath.Dir(worktreePath))
CreateMkdir(p) ==
    /\ rt.pc[p] = "mkdir"
    /\ CreateStep(p, "add", "", FALSE,
                  [World({}) EXCEPT !.dirs = @ \cup Ancestors(Dir(NewPath))])

\* runGitWorktreeAdd: the first `git worktree add -b`
CreateAdd(p) ==
    /\ rt.pc[p] = "add"
    /\ \E w \in {GitWorktreeAdd(World({}), NewPath, NewBranch, TRUE, cfg.BaseBranch, "")} :
           IF w.ok THEN CreateStep(p, "created", "", FALSE, w)
           ELSE IF shouldRetryWorktreeAdd(w.err) THEN CreateStep(p, "prune", w.err, FALSE, w)
           ELSE CreateStep(p, "failed", w.err, FALSE, w)

\* runGitWorktreeAdd: `git worktree prune` before the retry
CreatePrune(p) ==
    /\ rt.pc[p] = "prune"
    /\ CreateStep(p, "retry", rt.err[p], FALSE, GitWorktreePrune(World({}), ""))

\* a retry whose error is dropped
CreateRetrySwallowed(p) ==
    /\ rt.pc[p] = "retry"
    /\ \E w \in {GitWorktreeAdd(World({}), NewPath, NewBranch, TRUE, cfg.BaseBranch, "")} :
           CreateStep(p, "created", "", TRUE, w)

\* runGitWorktreeAdd: the second `git worktree add -b`, whose outcome is returned
CreateRetry(p) ==
    /\ rt.pc[p] = "retry"
    /\ \E w \in {GitWorktreeAdd(World({}), NewPath, NewBranch, TRUE, cfg.BaseBranch, "")} :
           IF w.ok THEN CreateStep(p, "created", "", TRUE, w)
           ELSE CreateStep(p, "failed", w.err, TRUE, w)

CreateNext ==
    \/ \E p \in Procs : CreateBranchCheck(p)
    \/ \E p \in Procs : CreateStat(p)
    \/ \E p \in Procs : CreateMkdir(p)
    \/ \E p \in Procs : CreateAdd(p)
    \/ \E p \in Procs : CreatePrune(p)
    \/ \E p \in Procs : CreateRetry(p)

CreateSpec == CreateInit /\ [][CreateNext]_vars

AgentListings ==
    {<<[Path |-> RootCopy, AgentState |-> a]>> : a \in {"yes", "no"}}
    \cup {<<[Path |-> RootCopy, AgentState |-> a], [Path |-> NewCopy, AgentState |-> b]>> :
             a, b \in {"yes", "no"}}

Listed(items, path) == \E i \in 1..Len(items) : items[i].Path = path

Without(map, paths) == [p \in DOMAIN map \ paths |-> map[p]]

\* tuiState.refresh: the list is replaced and the map loses the entries of
\* the listed paths without an agent and of the paths not listed
refreshAgentPrompt(u, items) ==
    LET noAgent(map) ==
            Without(map, {items[i].Path : i \in {j \in 1..Len(items) : items[j].AgentState # "yes"}})
        alive(map) == Without(map, {p \in DOMAIN map : ~Listed(items, p)})
    IN  [u EXCEPT !.items = items, !.agentPrompt = alive(noAgent(@))]

\* the completion callbacks of the create and the delete task: `u.items = refreshed`
replaceItems(u, refreshed) == [u EXCEPT !.items = refreshed]

\* tuiState.setAgentPromptState, on the map
setAgentPromptAt(u, item, next) ==
    IF item.AgentState # "yes" THEN [u EXCEPT !.agentPrompt = Without(@, {item.Path})]
    ELSE [u EXCEPT !.agentPrompt = (item.Path :> next) @@ @]

\* tuiState.tableAgentLabel
tableAgentLabel(u, item) ==
    IF item.AgentState # "yes" THEN item.AgentState
    ELSE IF item.Path \notin DOMAIN u.agentPrompt THEN "yes"
    ELSE u.agentPrompt[item.Path]

\* newTUIState and the first refresh
AgentInit ==
    /\ cfg = BaseConfig(<<StrAgent>>, {StrTmux, StrCodex}, FALSE)
    /\ branches = {StrMain}
    /\ worktrees = {[path |-> RepoRoot, branch |-> StrMain]}
    /\ dirs = Ancestors(RepoRoot)
    /\ dirty = {}
    /\ tmux = EmptyMap
    /\ log = <<>>
    /\ last = Idle
    /\ pane = NoPane
    /\ ui \in {refreshAgentPrompt([items |-> <<>>, agentPrompt |-> EmptyMap], items) :
                  items \in AgentListings}
    /\ rt = NoRuntime

AgentStep(op, u) ==
    /\ ui' = u
    /\ last' = [Idle EXCEPT !.op = op]
    /\ UNCHANGED <<cfg, branches, worktrees, dirs, dirty, tmux, log, pane, rt>>

\* the refresh key, or the refresh after an action of the dashboard
AgentRefresh ==
    /\ \E items \in AgentListings : ui' = refreshAgentPrompt(ui, items)
    /\ last' = [Idle EXCEPT !.op = "refresh"]
    /\ UNCHANGED <<cfg, branches, worktrees, dirs, dirty, tmux, log, pane, rt>>

\* the live tick captured the pane of a listed working copy
AgentCapture ==
    \E i \in 1..Len(ui.items), next \in {"ready", "busy"} :
        AgentStep("capture", setAgentPromptAt(ui, ui.items[i], next))

\* the create task completed: its callback shows the list the task read,
\* which holds the new working copy, unless reading it failed
AgentCreated ==
    /\ ~Listed(ui.items, NewCopy)
    /\ \E refreshed \in {items \in AgentListings : Listed(items, NewCopy)}, refreshOk \in BOOLEAN :
           AgentStep("created", IF refreshOk THEN replaceItems(ui, refreshed) ELSE ui)

\* the delete task completed: its callback shows the list the task read,
\* which no longer holds the working copy, unless reading it failed
AgentRemoved ==
    /\ Listed(ui.items, NewCopy)
    /\ \E refreshed \in {items \in AgentListings : ~Listed(items, NewCopy)}, refreshOk \in BOOLEAN :
           AgentStep("removed", IF refreshOk THEN replaceItems(ui, refreshed) ELSE ui)

AgentNext ==
    \/ AgentRefresh
    \/ AgentCapture
    \/ AgentCreated
    \/ AgentRemoved

AgentSpec == AgentInit /\ [][AgentNext]_vars

\* C38: after every update of the list of working copies (a refresh, or the
\* completion of a create or a delete task) the agent-prompt map holds
\* entries only for listed paths whose AgentState is "yes".
C38_PromptMapPruned ==
    [][last'.op \in {"refresh", "created", "removed"} =>
          \A path \in DOMAIN ui'.agentPrompt :
              \E i \in 1..Len(ui'.items) :
                  ui'.items[i].Path = path /\ ui'.items[i].AgentState = "yes"]_vars

\* a refresh leaves entries only for listed paths with an agent
RefreshPrunes ==
    [][last'.op = "refresh" =>
          \A path \in DOMAIN ui'.agentPrompt :
              \E i \in 1..Len(ui'.items) :
                  ui'.items[i].Path = path /\ ui'.items[i].AgentState = "yes"]_vars

\* the row of a working copy just created shows ready or busy, from an entry
\* written for the path before the working copy was created
StaleLabelShown ==
    /\ last.op = "created"
    /\ \E i \in 1..Len(ui.items) :
           ui.items[i].Path = NewCopy /\ tableAgentLabel(ui, ui.items[i]) \in {"ready", "busy"}

(* ------------------------------------------------------------------ *)
(* Modals: the create and the delete modal and their tasks             *)
(* ------------------------------------------------------------------ *)

\* how often the confirm action of one modal may fire
MaxFires == 3

\* the dashboard with no modal open.  kind is the modal function that ran
\* last (its closures are the ones an action can reach), page the page on top,
\* creating and removing the flags of the closures, branch the branch of the
\* confirm page, existing and copy its two choices, fired the firings of the
\* confirm action, started the tasks the modal started, tasks the tasks
\* running, and step of total the progress of the task.
NoModal ==
    [now |-> 0, kind |-> "", page |-> "", creating |-> FALSE, removing |-> FALSE,
     branch |-> <<>>, existing |-> FALSE, copy |-> TRUE, fired |-> 0, started |-> 0,
     tasks |-> 0, step |-> 0, total |-> 0, autoLaunch |-> TRUE, autoStartAgent |-> TRUE]

ModalInit ==
    /\ cfg = BaseConfig(<<StrAgent>>, {StrTmux, StrCodex}, FALSE)
    /\ branches = {StrMain}
    /\ worktrees = {[path |-> RepoRoot, branch |-> StrMain]}
    /\ dirs = Ancestors(RepoRoot)
    /\ dirty = {}
    /\ tmux = EmptyMap
    /\ log = <<>>
    /\ last = Idle
    /\ pane = NoPane
    /\ ui = NewUi
    /\ rt \in {[NoModal EXCEPT !.autoLaunch = launch, !.autoStartAgent = agent] :
                  launch, agent \in BOOLEAN}

\* the steps of the create task: create and refresh, launch and agent if configured
totalSteps(r) == 2 + (IF r.autoLaunch THEN 1 ELSE 0) + (IF r.autoStartAgent THEN 1 ELSE 0)

\* the modal function starts with the flags and choices of a new modal
NewModal(r, kind) ==
    [NoModal EXCEPT !.kind = kind, !.page = kind, !.autoLaunch = r.autoLaunch,
                    !.autoStartAgent = r.autoStartAgent]

ModalStep(r) ==
    /\ rt' = r
    /\ UNCHANGED <<cfg, branches, worktrees, dirs, dirty, tmux, log, last, pane, ui>>

\* a doCreate without the creating flag
doCreateUnguarded(r, branch) ==
    IF TrimSpace(branch) = <<>> THEN r
    ELSE [r EXCEPT !.creating = TRUE, !.page = "create-progress", !.step = 0,
                   !.total = totalSteps(r), !.started = @ + 1, !.tasks = @ + 1]

\* showCreateModal: doCreate, which starts the create task
doCreate(r, branch) ==
    IF r.creating THEN r
    ELSE IF TrimSpace(branch) = <<>> THEN r
    ELSE [r EXCEPT !.creating = TRUE, !.page = "create-progress", !.step = 0,
                   !.total = totalSteps(r), !.started = @ + 1, !.tasks = @ + 1]

\* showDeleteModal: the closure remove, which starts the delete task
removeSelected(r) ==
    IF r.removing THEN r
    ELSE [r EXCEPT !.removing = TRUE, !.page = "delete-progress", !.step = 0, !.total = 2,
                   !.started = @ + 1, !.tasks = @ + 1]

\* tuiState.closeModal
closeModal(r, name) == IF r.page = name THEN [r EXCEPT !.page = ""] ELSE r

\* the key n on the main view: showCreateModal, with a creating flag of its own
ShowCreate ==
    /\ rt.page = ""
    /\ rt.tasks = 0
    /\ ModalStep(NewModal(rt, "create"))

\* openCreateConfirm: the branch typed or picked is confirmed, unless it is blank
OpenConfirm ==
    /\ rt.page = "create"
    /\ \E branch \in {<<>>, <<" ">>, StrDev}, fromExisting \in BOOLEAN :
           ModalStep(IF TrimSpace(branch) = <<>> THEN rt
                     ELSE [rt EXCEPT !.page = "create-confirm", !.branch = TrimSpace(branch),
                                     !.existing = fromExisting, !.copy = TRUE])

\* toggleCopy on the create-confirm page
ToggleCopy ==
    /\ rt.page = "create-confirm"
    /\ ModalStep([rt EXCEPT !.copy = ~@])

\* the confirm action of the create-confirm page fires, as often as events
\* are delivered to it
ConfirmCreate ==
    /\ rt.kind = "create"
    /\ rt.branch # <<>>
    /\ rt.fired < MaxFires
    /\ ModalStep(doCreate([closeModal(rt, "create-confirm") EXCEPT !.fired = @ + 1],
                          rt.branch))

\* the cancel action of the create-confirm page: the create modal is shown anew
CancelConfirm ==
    /\ rt.page = "create-confirm"
    /\ ModalStep(NewModal(rt, "create"))

\* the key d on the main view: showDeleteModal, with a removing flag of its own
ShowDelete ==
    /\ rt.page = ""
    /\ rt.tasks = 0
    /\ ModalStep(NewModal(rt, "delete"))

\* the remove action of the delete modal fires, as often as events are
\* delivered to it
ConfirmRemove ==
    /\ rt.kind = "delete"
    /\ rt.fired < MaxFires
    /\ ModalStep(removeSelected([closeModal(rt, "delete") EXCEPT !.fired = @ + 1]))

\* the cancel action of the delete modal
CancelDelete ==
    /\ rt.page = "delete"
    /\ ModalStep(closeModal(rt, "delete"))

\* the task goes on to its next step (advance)
TaskAdvance ==
    /\ rt.tasks > 0
    /\ rt.step < rt.total
    /\ ModalStep([rt EXCEPT !.step = @ + 1])

\* a task completed, after its last step or after the failure of its first,
\* and its callback ran: the progress page is closed
TaskDone ==
    /\ rt.tasks > 0
    /\ rt.step \in {1, rt.total}
    /\ ModalStep([closeModal(closeModal(rt, "create-progress"), "delete-progress")
                     EXCEPT !.tasks = @ - 1])

ModalNext ==
    \/ ShowCreate
    \/ OpenConfirm
    \/ ConfirmCreate
    \/ ToggleCopy
    \/ CancelConfirm
    \/ ShowDelete
    \/ ConfirmRemove
    \/ CancelDelete
    \/ TaskAdvance
    \/ TaskDone

ModalSpec == ModalInit /\ [][ModalNext]_vars

\* C39: one create modal starts at most one create task, and one delete
\* modal at most one remove task, however often its confirm action fires
\* before the task completes.
C39_OneTaskPerModal ==
    /\ rt.started <= 1
    /\ rt.tasks <= 1

\* the confirm action fired again while the task it started was still running
C39_Witness ==
    /\ rt.fired > 1
    /\ rt.started = 1
    /\ rt.tasks = 1

(* ------------------------------------------------------------------ *)
(* Tickers: the live-detail poller and the spinner of a progress modal *)
(* ------------------------------------------------------------------ *)

\* the callbacks the queue of the application holds at most
MaxPending == 2

\* a ticker goroutine: whether it was started and still runs, and how often
\* its done channel was closed
NoTicker == [started |-> FALSE, alive |-> FALSE, closes |-> 0]

NewTicker == [started |-> TRUE, alive |-> TRUE, closes |-> 0]

\* RunUI before app.Run: startLiveDetailUpdates has started the poller
TickInit ==
    /\ cfg = BaseConfig(<<StrAgent>>, {StrTmux, StrCodex}, FALSE)
    /\ branches = {StrMain}
    /\ worktrees = {[path |-> RepoRoot, branch |-> StrMain]}
    /\ dirs = Ancestors(RepoRoot)
    /\ dirty = {}
    /\ tmux = EmptyMap
    /\ log = <<>>
    /\ last = Idle
    /\ pane = NoPane
    /\ ui = NewUi
    /\ rt = [now |-> 0, app |-> "running", live |-> NewTicker, progress |-> NoTicker,
             page |-> "", task |-> "none", queue |-> <<>>]

TickStep(r) ==
    /\ rt' = r
    /\ UNCHANGED <<cfg, branches, worktrees, dirs, dirty, tmux, log, last, pane, ui>>

\* the stop function of a ticker: close(done)
stop(ticker) == [ticker EXCEPT !.closes = @ + 1]

\* doCreate or remove on the UI thread: showProgressModal starts the spinner
\* and the task goroutine is started
TickStartTask ==
    /\ rt.app = "running"
    /\ rt.page = ""
    /\ rt.task = "none"
    /\ \E name \in {"create-progress", "delete-progress"} :
           TickStep([rt EXCEPT !.progress = NewTicker, !.page = name, !.task = "running"])

\* the poller takes a tick and queues its callback
TickLive ==
    /\ rt.live.alive
    /\ Len(rt.queue) < MaxPending
    /\ TickStep([rt EXCEPT !.queue = Append(@, "live")])

\* the spinner takes a tick and queues its render
TickProgress ==
    /\ rt.progress.alive
    /\ Len(rt.queue) < MaxPending
    /\ TickStep([rt EXCEPT !.queue = Append(@, "render")])

\* a ticker goroutine finds its done channel closed and returns
TickExit ==
    \E t \in {"live", "progress"} :
        /\ rt[t].alive
        /\ rt[t].closes > 0
        /\ TickStep([rt EXCEPT ![t].alive = FALSE])

\* the task goroutine is through and queues its completion callback
TickTaskDone ==
    /\ rt.task = "running"
    /\ TickStep([rt EXCEPT !.task = "posted", !.queue = Append(@, "done")])

\* the UI thread runs the callback at the head of the queue; the completion
\* callback calls stopProgress and closes the progress modal
TickRunQueued ==
    /\ rt.app = "running"
    /\ rt.queue # <<>>
    /\ TickStep(IF Head(rt.queue) = "done"
                THEN [rt EXCEPT !.queue = Tail(@), !.progress = stop(@), !.page = "",
                                !.task = "none"]
                ELSE [rt EXCEPT !.queue = Tail(@)])

\* Ctrl-C on any page, or q on the main view: app.Stop, and app.Run returns
TickQuit ==
    /\ rt.app = "running"
    /\ \E key \in {"ctrl-c", "q"} :
           /\ key = "q" => rt.page = ""
           /\ TickStep([rt EXCEPT !.app = "stopped"])

\* RunUI returns: the deferred stopLive runs
TickReturn ==
    /\ rt.app = "stopped"
    /\ TickStep([rt EXCEPT !.app = "returned", !.live = stop(@)])

TickNext ==
    \/ TickStartTask
    \/ TickLive
    \/ TickProgress
    \/ TickExit
    \/ TickTaskDone
    \/ TickRunQueued
    \/ TickQuit
    \/ TickReturn

TickSpec == TickInit /\ [][TickNext]_vars

\* C40: the stop function of every ticker that was started is called exactly
\* once on every path: no done channel is closed twice, the spinner is
\* stopped when its progress modal is closed, and when RunUI has returned
\* every ticker that was started has been stopped.
C40_TickersStopped ==
    /\ rt.live.closes <= 1
    /\ rt.progress.closes <= 1
    /\ (rt.progress.started /\ rt.page = "") => rt.progress.closes = 1
    /\ rt.app = "returned" =>
           /\ rt.live.closes = 1
           /\ rt.progress.started => rt.progress.closes = 1

\* no done channel is closed twice, the spinner is stopped when its modal is
\* closed, and the poller is stopped when RunUI returns
TickersStoppedOnce ==
    /\ rt.live.closes <= 1
    /\ rt.progress.closes <= 1
    /\ (rt.progress.started /\ rt.page = "") => rt.progress.closes = 1
    /\ rt.app = "returned" => rt.live.closes = 1

====
